---- MODULE Spec2Model ----
(***************************************************************************)
(* A model of rwcarlsen/goexif: the TIFF tag / directory / container       *)
(* decoder and the typed accessors of a tag (package tiff), the JPEG APP1 *)
(* segment scanner and the EXIF document builder (package exif), and the   *)
(* maker-note parsers (package mknote).                                    *)
(*                                                                         *)
(* Numbers.  TLC's integers are 32-bit signed, the program's are uint16,   *)
(* uint32, int32 and int64.  A 32-bit word is therefore kept as a pair of  *)
(* 16-bit limbs <<hi, lo>> (value hi * 65536 + lo); an int64 that came     *)
(* from a 32-bit word is kept as the same pair with a signed hi limb       *)
(* (-1 is <<-1, 65535>>).  The arithmetic on uint32 is done on the limbs   *)
(* modulo 2^32, as Go does it.  The model is of a 64-bit build: int is 64  *)
(* bits, so int(uint32) never changes the value.                           *)
(*                                                                         *)
(* Readers.  A bytes.Reader is a byte sequence with a cursor pos (the      *)
(* number of bytes consumed); ReadAt does not move the cursor.             *)
(***************************************************************************)
EXTENDS Integers, Sequences, FiniteSets, TLC

VARIABLES
    tg,     \* the DecodeTag scenario: one tag record and its decoding
    tf,     \* the tiff.Decode scenario: a container and the directory loop
    app,    \* the newAppSec scenario: a JPEG stream and the scanner
    ex,     \* the exif.Decode scenario: an input stream and the document
    fd,     \* the field document scenario: Decode by field names, Get, Walk
    ac,     \* the accessor scenario: a decoded tag and the calls on it
    ns      \* the namespace scenario: Decode into three tag maps, and Get

vars == <<tg, tf, app, ex, fd, ac, ns>>

\* A scenario that is not running in the specification at hand.
Idle == [pc |-> "idle"]

-----------------------------------------------------------------------------
(* Bounds of the model *)

\* Largest component count of an encoded (well-formed) tag.
MaxCount == 3
\* Directories the model lets tiff.Decode append before it stops counting.
MaxDirs == 4

-----------------------------------------------------------------------------
(* encoding/binary and the readers *)

Reverse(s) == [i \in 1..Len(s) |-> s[Len(s) + 1 - i]]

\* The bytes of a word, most significant first, from their order in the file.
Ordered(bs, order) == IF order = "BE" THEN bs ELSE Reverse(bs)

\* binary.ByteOrder.Uint16
Uint16(bs, order) ==
    LET d == Ordered(bs, order) IN d[1] * 256 + d[2]

\* binary.ByteOrder.Uint32, as limbs <<hi, lo>>
Uint32(bs, order) ==
    LET d == Ordered(bs, order) IN <<d[1] * 256 + d[2], d[3] * 256 + d[4]>>

\* Int32 with the sign bit read as a magnitude bit (int64(uint32) for int64(int32)).
Int32Unsigned(u) == u

\* int64(int8(b)), int64(int16(v)), int64(int32(u)): sign extension.
Int8(b) == IF b >= 128 THEN <<-1, 65280 + b>> ELSE <<0, b>>
Int16(v) == IF v >= 32768 THEN <<-1, v>> ELSE <<0, v>>
Int32(u) == IF u[1] >= 32768 THEN <<u[1] - 65536, u[2]>> ELSE u

\* io.ReadFull(r, make([]byte, n)) on the sequential cursor of a bytes.Reader:
\* all n bytes or an error; a failed read consumes what was left.
ReadFull(buf, pos, n) ==
    IF n = 0 \/ pos + n <= Len(buf)
    THEN [ok |-> TRUE, bytes |-> SubSeq(buf, pos + 1, pos + n), pos |-> pos + n]
    ELSE [ok |-> FALSE, bytes |-> <<>>,
          pos |-> IF pos > Len(buf) THEN pos ELSE Len(buf)]

\* ReadAt that reports a short read as complete, the missing bytes left zero
\* (the "n != int(valLen) || err != nil" test dropped).
ReadAtPadded(buf, off, len) ==
    LET avail == IF off[1] > 0 \/ off[2] >= Len(buf) THEN 0 ELSE Len(buf) - off[2]
        n == IF len[1] > 0 \/ len[2] > avail THEN avail ELSE len[2]
        got == IF n = 0 THEN <<>> ELSE SubSeq(buf, off[2] + 1, off[2] + n)
    IN  [n |-> n,
         full |-> (len[1] = 0),
         bytes |-> IF len[1] = 0 THEN got \o [i \in 1..(len[2] - n) |-> 0] ELSE got]

\* bytes.Reader.ReadAt(make([]byte, len), off): off and len are uint32 limbs.
\* n bytes are copied; full is "n == len && err == nil".
ReadAt(buf, off, len) ==
    LET avail == IF off[1] > 0 \/ off[2] >= Len(buf) THEN 0 ELSE Len(buf) - off[2]
        n == IF len[1] > 0 \/ len[2] > avail THEN avail ELSE len[2]
    IN  [n |-> n,
         full |-> (len[1] = 0 /\ n = len[2]),
         bytes |-> IF n = 0 THEN <<>> ELSE SubSeq(buf, off[2] + 1, off[2] + n)]

-----------------------------------------------------------------------------
(* package tiff: tags *)

\* typeSize[t]; a missing map key reads as 0.
typeSize(t) ==
    CASE t \in {1, 2, 6, 7} -> 1
      [] t \in {3, 8} -> 2
      [] t \in {4, 9, 11} -> 4
      [] t \in {5, 10, 12} -> 8
      [] OTHER -> 0

\* uint32 multiplication typeSize[t.Type] * t.Count, modulo 2^32.
MulU32(w, c) ==
    LET l == w * c[2]
        h == w * c[1] + (l \div 65536)
    IN  <<h % 65536, l % 65536>>

\* valLen > 4 on the limbs.
Gt4(u) == u[1] > 0 \/ u[2] > 4

RECURSIVE ReadWords(_, _, _, _, _)
\* The loops of convertVals, "for i := range vals { binary.Read(r, order, &v) }":
\* count iterations of w bytes each over the bytes of Val, stopping with an
\* error at the first read that finds fewer than w bytes.
ReadWords(val, count, i, w, acc) ==
    IF count[1] = 0 /\ i = count[2] THEN [err |-> FALSE, words |-> acc]
    ELSE IF Len(val) < w THEN [err |-> TRUE, words |-> acc]
    ELSE ReadWords(SubSeq(val, w + 1, Len(val)), count, i + 1, w,
                   Append(acc, SubSeq(val, 1, w)))

\* One component from its w bytes, per data type.
ConvertWord(typ, bs, order) ==
    CASE typ = 1 -> <<0, bs[1]>>
      [] typ = 6 -> Int8(bs[1])
      [] typ = 3 -> <<0, Uint16(bs, order)>>
      [] typ = 8 -> Int16(Uint16(bs, order))
      [] typ = 4 -> Uint32(bs, order)
      [] typ = 9 -> Int32(Uint32(bs, order))
      [] typ = 5 -> <<Uint32(SubSeq(bs, 1, 4), order), Uint32(SubSeq(bs, 5, 8), order)>>
      [] typ = 10 -> <<Int32(Uint32(SubSeq(bs, 1, 4), order)),
                       Int32(Uint32(SubSeq(bs, 5, 8), order))>>
      \* math.Float32frombits / Float64frombits: the value a float denotes is
      \* kept as its bit pattern, most significant byte first.
      [] typ = 11 -> Ordered(bs, order)
      [] typ = 12 -> Ordered(bs, order)

\* The switch of convertVals on the data type, given what its loop read
\* (rd.words) and whether the loop ended in a read error (rd.err).
ConvertedAs(typ, val, rd, order) ==
    LET none == [err |-> FALSE, intVals |-> <<>>, ratVals |-> <<>>,
                 floatVals |-> <<>>, strVal |-> <<>>]
        vs == [i \in 1..Len(rd.words) |-> ConvertWord(typ, rd.words[i], order)]
    IN  CASE typ = 2 ->
               [none EXCEPT !.strVal =
                   IF Len(val) > 0 THEN SubSeq(val, 1, Len(val) - 1) ELSE <<>>]
          [] typ \in {1, 3, 4, 6, 8, 9} ->
               [none EXCEPT !.err = rd.err, !.intVals = vs]
          [] typ \in {5, 10} ->
               [none EXCEPT !.err = rd.err, !.ratVals = vs]
          [] typ \in {11, 12} ->
               [none EXCEPT !.err = rd.err, !.floatVals = vs]
          [] OTHER -> none

\* convertVals with the read errors of its loops dropped.
convertValsUnchecked(typ, count, val, order) ==
    [ConvertedAs(typ, val, ReadWords(val, count, 0, typeSize(typ), <<>>), order)
        EXCEPT !.err = FALSE]

\* Tag.convertVals: [err, intVals, ratVals, floatVals, strVal].
convertVals(typ, count, val, order) ==
    ConvertedAs(typ, val, ReadWords(val, count, 0, typeSize(typ), <<>>), order)

\* The tag t with the outcome cv of its convertVals.
WithVals(t, cv) ==
    [t EXCEPT !.err = cv.err, !.intVals = cv.intVals, !.ratVals = cv.ratVals,
              !.floatVals = cv.floatVals, !.strVal = cv.strVal]

\* DecodeTag(r, order) with r a bytes.Reader over buf at cursor pos.
\* nil: the returned *Tag is nil; pos: the cursor afterwards.
DecodeTag(buf, pos, order) ==
    LET rId == ReadFull(buf, pos, 2)
        rTy == ReadFull(buf, rId.pos, 2)
        rCn == ReadFull(buf, rTy.pos, 4)
        Id == Uint16(rId.bytes, order)
        Type == Uint16(rTy.bytes, order)
        Count == Uint32(rCn.bytes, order)
        valLen == MulU32(typeSize(Type), Count)
        t0 == [err |-> TRUE, nil |-> TRUE, Id |-> 0, Type |-> 0, Count |-> <<0, 0>>,
               Val |-> <<>>, ValOffset |-> <<0, 0>>, intVals |-> <<>>, ratVals |-> <<>>,
               floatVals |-> <<>>, strVal |-> <<>>, pos |-> pos]
    IN  IF ~rId.ok THEN [t0 EXCEPT !.pos = rId.pos]
        ELSE IF ~rTy.ok THEN [t0 EXCEPT !.pos = rTy.pos]
        ELSE IF ~rCn.ok THEN [t0 EXCEPT !.pos = rCn.pos]
        ELSE LET t == [t0 EXCEPT !.nil = FALSE, !.Id = Id, !.Type = Type, !.Count = Count]
             IN  IF Gt4(valLen)
                 THEN \* binary.Read(r, order, &t.ValOffset): the error is dropped,
                      \* a short read leaves ValOffset 0.
                      LET rOf == ReadFull(buf, rCn.pos, 4)
                          off == IF rOf.ok THEN Uint32(rOf.bytes, order) ELSE <<0, 0>>
                          at == ReadAt(buf, off, valLen)
                          t1 == [t EXCEPT !.ValOffset = off, !.Val = at.bytes, !.pos = rOf.pos]
                      IN  IF ~at.full THEN t1
                          ELSE WithVals(t1, convertVals(Type, Count, at.bytes, order))
                 ELSE LET rVal == ReadFull(buf, rCn.pos, valLen[2])
                          rPad == ReadFull(buf, rVal.pos, 4 - valLen[2])
                      IN  IF ~rVal.ok THEN [t EXCEPT !.pos = rVal.pos]
                          ELSE IF ~rPad.ok THEN [t EXCEPT !.pos = rPad.pos]
                          ELSE WithVals([t EXCEPT !.Val = rVal.bytes, !.pos = rPad.pos],
                                        convertVals(Type, Count, rVal.bytes, order))

-----------------------------------------------------------------------------
(* The DecodeTag scenario: inputs *)

\* The encoder of the tests' fixtures (buildInput and the big/little hex
\* strings): a word's bytes in file order, written independently of the decoder.
FileOrder(digits, order) ==
    IF order = "LE" THEN [i \in 1..Len(digits) |-> digits[Len(digits) + 1 - i]]
    ELSE digits

Put16(v, order) == FileOrder(<<v \div 256, v % 256>>, order)

\* u is a limb pair; a signed hi limb is stored in two's complement.
Put32(u, order) ==
    LET hi == (u[1] + 65536) % 65536
    IN  FileOrder(<<hi \div 256, hi % 256, u[2] \div 256, u[2] % 256>>, order)

\* The bytes of one component of an encoded tag.
EncodeComp(typ, c, order) ==
    CASE typ \in {2, 7} -> <<c>>
      [] typ \in {1, 6} -> <<c[2] % 256>>
      [] typ \in {3, 8} -> Put16(c[2], order)
      [] typ \in {4, 9} -> Put32(c, order)
      [] typ \in {5, 10} -> Put32(c[1], order) \o Put32(c[2], order)
      [] typ \in {11, 12} -> FileOrder(c, order)

RECURSIVE EncodeComps(_, _, _)
EncodeComps(typ, comps, order) ==
    IF comps = <<>> THEN <<>>
    ELSE EncodeComp(typ, Head(comps), order) \o EncodeComps(typ, Tail(comps), order)

\* n bytes of padding, each b.
Fill(n, b) == [i \in 1..n |-> b]

\* buildInput: the 12-byte record, then 0xFF up to the value's offset, then
\* the value; a value of at most 4 bytes sits in the record's last field.
BuildInput(in, order) ==
    LET val == EncodeComps(in.Type, in.comps, order)
        head == Put16(in.Id, order) \o Put16(in.Type, order)
                \o Put32(<<0, Len(in.comps)>>, order)
    IN  IF Len(val) <= 4
        THEN head \o val \o Fill(4 - Len(val), 0)
        ELSE head \o Put32(<<0, in.off>>, order) \o Fill(in.off - 12, 255) \o val

\* Component values the encoded tags are built from, two per data type: one
\* with the top bit clear and one with it set (a negative number for the
\* signed types), a zero denominator among the rationals, a NUL among the
\* ASCII bytes.
CompVals(typ) ==
    CASE typ = 1 -> {<<0, 17>>, <<0, 244>>}
      [] typ = 2 -> {65, 0}
      [] typ = 3 -> {<<0, 4370>>, <<0, 62483>>}
      [] typ = 4 -> {<<4370, 4884>>, <<62485, 34327>>}
      [] typ = 5 -> {<< <<0, 50>>, <<0, 1>> >>, << <<62485, 34327>>, <<0, 0>> >>}
      [] typ = 6 -> {<<0, 17>>, <<-1, 65524>>}
      [] typ = 7 -> {17, 244}
      [] typ = 8 -> {<<0, 4370>>, <<-1, 62483>>}
      [] typ = 9 -> {<<4370, 4884>>, <<-3051, 34327>>}
      [] typ = 10 -> {<< <<-1, 65535>>, <<0, 3>> >>, << <<0, 1>>, <<0, 0>> >>}
      [] typ = 11 -> {<<63, 128, 0, 0>>, <<192, 32, 0, 1>>}
      [] typ = 12 -> {<<63, 240, 0, 0, 0, 0, 0, 0>>, <<192, 4, 0, 0, 0, 0, 0, 1>>}

TagIds == {1, 259}
Orders == {"BE", "LE"}
EncOffsets == {12, 17}

\* The well-formed tags: every data type, 1..MaxCount components.
EncodedTags ==
    UNION {
      UNION { { [Id |-> id, Type |-> typ, comps |-> cs, off |-> o] :
                  id \in TagIds, cs \in [1..n -> CompVals(typ)], o \in EncOffsets }
              : n \in 1..MaxCount }
      : typ \in 1..12 }

\* The raw records: type codes 0..13, counts around 0, around the inline
\* limit and where typeSize * count passes 2^32, offsets inside, at the end
\* of and beyond the buffer.
RawCounts ==
    {<<0, 0>>, <<0, 1>>, <<0, 2>>, <<0, 4>>, <<0, 5>>, <<0, 8>>,
     <<8192, 0>>, <<8192, 1>>, <<16384, 0>>, <<16384, 2>>,
     <<32768, 0>>, <<32768, 1>>, <<32768, 4>>, <<65535, 65535>>}
RawOffsets == {<<0, 0>>, <<0, 12>>, <<0, 14>>, <<0, 20>>, <<1, 12>>, <<65535, 65535>>}
RawRestLens == {0, 4, 8, 16}
\* How many bytes of the 12-byte record the buffer holds.
RawCuts == {12, 10, 8}

\* The bytes that follow a raw record.
Pattern == <<17, 130, 19, 244, 21, 134, 23, 8, 25, 138, 27, 12, 29, 142, 31, 0>>

BuildRaw(in, order) ==
    LET rec == Put16(in.Id, order) \o Put16(in.Type, order)
               \o Put32(in.Count, order) \o Put32(in.off, order)
    IN  IF in.cut < 12 THEN SubSeq(rec, 1, in.cut)
        ELSE rec \o SubSeq(Pattern, 1, in.rest)

RawTags ==
    { [Id |-> 1, Type |-> typ, Count |-> c, off |-> o, rest |-> r, cut |-> k] :
        typ \in 0..13, c \in RawCounts, o \in RawOffsets, r \in RawRestLens,
        k \in RawCuts }

InitTag ==
    /\ \/ \E in \in EncodedTags, order \in Orders :
            tg = [pc |-> "input", kind |-> "enc", order |-> order, in |-> in,
                  buf |-> BuildInput(in, order)]
       \/ \E in \in RawTags, order \in Orders :
            tg = [pc |-> "input", kind |-> "raw", order |-> order, in |-> in,
                  buf |-> BuildRaw(in, order)]
    /\ tf = Idle /\ app = Idle /\ ex = Idle
    /\ fd = Idle /\ ac = Idle /\ ns = Idle

\* DecodeTag(bytes.NewReader(buf), order), as TestDecodeTag calls it.
DecodeTagStep ==
    /\ tg.pc = "input"
    /\ tg' = [pc |-> "decoded", kind |-> tg.kind, order |-> tg.order, in |-> tg.in,
              buf |-> tg.buf, res |-> DecodeTag(tg.buf, 0, tg.order)]
    /\ UNCHANGED <<tf, app, ex, fd, ac, ns>>

NextTag == DecodeTagStep

SpecTag == InitTag /\ [][NextTag]_vars

-----------------------------------------------------------------------------
(* The DecodeTag scenario: properties *)

\* typeSize * count is 2^32 or more: the exact product, on the limbs.
Overflows(typ, c) ==
    typeSize(typ) * c[1] + ((typeSize(typ) * c[2]) \div 65536) >= 65536

\* A raw record whose 12 bytes are all in the buffer has been decoded.
RawDecoded == tg.pc = "decoded" /\ tg.kind = "raw" /\ tg.in.cut = 12

\* The exact value length of the decoded raw record is more than 4 bytes.
RawLenGt4 ==
    \/ Overflows(tg.in.Type, tg.in.Count)
    \/ Gt4(MulU32(typeSize(tg.in.Type), tg.in.Count))

\* Offset + exact value length of the decoded raw record passes the buffer's end.
RawExceeds ==
    LET L == MulU32(typeSize(tg.in.Type), tg.in.Count)
        O == tg.in.off
    IN  \/ Overflows(tg.in.Type, tg.in.Count)
        \/ O[1] > 0 \/ L[1] > 0
        \/ O[2] + L[2] > Len(tg.buf)

C2_ZeroLengthValueFails ==
    (/\ RawDecoded
     /\ ~Overflows(tg.in.Type, tg.in.Count)
     /\ MulU32(typeSize(tg.in.Type), tg.in.Count) = <<0, 0>>)
        => tg.res.err

-----------------------------------------------------------------------------
(* package tiff: directories and the container *)

RECURSIVE DecodeTags(_, _, _, _, _)
\* The body of the tag loop of DecodeDir after "t, err := DecodeTag(r, order)":
\* return on the error, else append and go on.
AfterTag(t, buf, order, n, acc) ==
    IF t.err THEN [err |-> TRUE, Tags |-> <<>>, pos |-> t.pos]
    ELSE DecodeTags(buf, t.pos, order, n - 1, Append(acc, t))

\* The tag loop of DecodeDir, "for n := 0; n < int(nTags); n++": the first
\* tag that fails ends the loop with the error and no tags.
DecodeTags(buf, pos, order, n, acc) ==
    IF n <= 0 THEN [err |-> FALSE, Tags |-> acc, pos |-> pos]
    ELSE AfterTag(DecodeTag(buf, pos, order), buf, order, n, acc)

\* int(nTags) for "var nTags int16" holding the 16 bits v.
NTags(v) == LET s == Int16(v) IN s[1] * 65536 + s[2]

\* DecodeDir returning (nil, 0, err), the cursor at pos.
DirFail(pos) ==
    [err |-> TRUE, nil |-> TRUE, Tags |-> <<>>, offset |-> <<0, 0>>, pos |-> pos]

\* DecodeDir after its tag loop, ts the loop's outcome: the offset of the
\* next directory, and the return.
DirAfterTags(buf, order, ts) ==
    LET rOf == ReadFull(buf, ts.pos, 4)
    IN  IF ts.err THEN DirFail(ts.pos)
        ELSE IF ~rOf.ok THEN DirFail(rOf.pos)
        ELSE [err |-> FALSE, nil |-> FALSE, Tags |-> ts.Tags,
              offset |-> Int32(Uint32(rOf.bytes, order)), pos |-> rOf.pos]

\* DecodeDir(r, order) with r over buf at cursor pos: [err, nil, Tags, offset, pos].
DecodeDir(buf, pos, order) ==
    LET rN == ReadFull(buf, pos, 2)
    IN  IF ~rN.ok THEN DirFail(rN.pos)
        ELSE DirAfterTags(buf, order,
                 DecodeTags(buf, rN.pos, order, NTags(Uint16(rN.bytes, order)), <<>>))

\* No DecodeDir call yet.
NoCall == [called |-> FALSE]

\* tiff.Decode returning (nil, error).
TiffFail(buf) ==
    [pc |-> "done", buf |-> buf, err |-> TRUE, order |-> "BE", offset |-> <<0, 0>>,
     Dirs |-> <<>>, seen |-> <<>>, last |-> NoCall]

\* tiff.Decode up to its directory loop: the byte order, the special marker
\* 0x002A and the offset of the first directory.
TiffBegin(buf) ==
    LET bo == SubSeq(buf, 1, 2)
        order == IF bo = <<73, 73>> THEN "LE" ELSE "BE"
        rSp == ReadFull(buf, 2, 2)
        rOf == ReadFull(buf, 4, 4)
    IN  IF Len(buf) < 2 THEN TiffFail(buf)
        ELSE IF bo # <<73, 73>> /\ bo # <<77, 77>> THEN TiffFail(buf)
        ELSE IF ~rSp.ok THEN TiffFail(buf)
        ELSE IF Int16(Uint16(rSp.bytes, order)) # <<0, 42>> THEN TiffFail(buf)
        ELSE IF ~rOf.ok THEN TiffFail(buf)
        ELSE [pc |-> "loop", buf |-> buf, err |-> FALSE, order |-> order,
              offset |-> Int32(Uint32(rOf.bytes, order)),
              Dirs |-> <<>>, seen |-> <<>>, last |-> NoCall]

\* The loop body after "d, offset, err = DecodeDir(buf, t.Order)".
TiffAfterDir(st, d) ==
    LET call == [called |-> TRUE, at |-> st.offset[2], order |-> st.order, d |-> d]
    IN  IF d.err THEN [TiffFail(st.buf) EXCEPT !.last = call]
        ELSE [st EXCEPT !.offset = d.offset,
                        !.Dirs = Append(st.Dirs, [Tags |-> d.Tags]),
                        !.seen = Append(st.seen, st.offset),
                        !.last = call]

\* One iteration of "for offset != 0": Seek, the test for end of data,
\* DecodeDir, append.  seen is the history of the values of offset, last the
\* DecodeDir call just made.
TiffLoadDir(st) ==
    IF st.offset[1] < 0 THEN TiffFail(st.buf)
    ELSE IF st.offset[1] > 0 \/ st.offset[2] >= Len(st.buf) THEN TiffFail(st.buf)
    ELSE TiffAfterDir(st, DecodeDir(st.buf, st.offset[2], st.order))

\* tiff.Decode returning (t, nil) once offset is 0.
TiffReturn(st) == [st EXCEPT !.pc = "done"]

RECURSIVE TiffRun(_, _)
\* The directory loop run to its end, for the callers of tiff.Decode; a run
\* that is still looping after fuel directories is reported as pc = "spin".
TiffRun(st, fuel) ==
    IF st.pc = "done" THEN st
    ELSE IF st.offset = <<0, 0>> THEN TiffReturn(st)
    ELSE IF fuel = 0 THEN [st EXCEPT !.pc = "spin"]
    ELSE TiffRun(TiffLoadDir(st), fuel - 1)

\* tiff.Decode(r) on a reader holding buf.
TiffDecode(buf) == TiffRun(TiffBegin(buf), MaxDirs)

-----------------------------------------------------------------------------
(* The tiff.Decode scenario: containers, and one step per part of Decode *)

\* A 12-byte tag record from its four fields (value: 4 bytes, file order).
TagRec(id, typ, count, value, order) ==
    Put16(id, order) \o Put16(typ, order) \o Put32(count, order) \o value

\* The tag records a test directory is made of: a short, a rational stored
\* at offset 0 (the 8 header bytes), and a rational whose offset is far
\* beyond any buffer.
TestRecs(order) ==
    [short |-> TagRec(271, 3, <<0, 1>>, Put16(4370, order) \o <<0, 0>>, order),
     rat |-> TagRec(282, 5, <<0, 1>>, Put32(<<0, 0>>, order), order),
     bad |-> TagRec(283, 5, <<0, 1>>, Put32(<<65535, 0>>, order), order)]

RecNames == {"short", "rat", "bad"}

\* The record lists of a test directory: up to two records.
RecLists == {<<>>} \cup {<<a>> : a \in RecNames} \cup {<<a, b>> : a, b \in RecNames}

RECURSIVE Recs(_, _)
Recs(names, order) ==
    IF names = <<>> THEN <<>>
    ELSE TestRecs(order)[Head(names)] \o Recs(Tail(names), order)

\* The tag-count fields tried for a directory of k records: the true count,
\* one more than there are records, and counts with the top bit set.
NFields(k) == {k, k + 1, 32768, 65535}

\* The next-directory offsets tried: none, the first directory, the place of
\* the second directory (dir2), inside the header, negative as int32, and
\* beyond the buffer.
NextOffsets(dir2) == {<<0, 0>>, <<0, 8>>, <<0, dir2>>, <<0, 4>>, <<65535, 65535>>, <<1, 0>>}

\* First-directory offsets tried.
FirstOffsets == {<<0, 0>>, <<0, 8>>, <<0, 9>>, <<0, 200>>}

\* What follows the first directory: nothing, or a second directory of one
\* short tag that ends the chain or points back to the first directory.
Dir2Kinds == {"none", "last", "back"}

\* A directory: count field, records, next offset.
BuildDir(n, names, next, order) ==
    Put16(n, order) \o Recs(names, order) \o Put32(next, order)

\* A container: header, first offset, first directory at 8, second directory.
BuildTiff(c, order) ==
    LET bo == IF order = "LE" THEN <<73, 73>> ELSE <<77, 77>>
        d1 == BuildDir(c.n, c.names, c.next, order)
        d2 == IF c.dir2 = "none" THEN <<>>
              ELSE BuildDir(1, <<"short">>,
                            IF c.dir2 = "back" THEN <<0, 8>> ELSE <<0, 0>>, order)
    IN  bo \o Put16(42, order) \o Put32(c.first, order) \o d1 \o d2

TestTiffs ==
    UNION { { [first |-> f, n |-> n, names |-> names, next |-> nx, dir2 |-> k] :
                f \in FirstOffsets, n \in NFields(Len(names)),
                nx \in NextOffsets(14 + 12 * Len(names)), k \in Dir2Kinds }
            : names \in RecLists }

\* Headers that are wrong or cut short, before one well-formed directory:
\* the two order bytes, the two marker bytes, and the length kept.
BadOrders == {<<73, 77>>, <<88, 88>>, <<105, 105>>, <<73, 73>>, <<77, 77>>}
BadMarkers == {<<42, 0>>, <<0, 42>>, <<43, 0>>, <<0, 0>>, <<255, 42>>}
HeaderCuts == {1, 3, 6, 26}

BuildHeaderTest(bo, sp, cut) ==
    SubSeq(bo \o sp \o <<0, 0, 0, 8>> \o BuildDir(1, <<"short">>, <<0, 0>>, "BE"),
           1, cut)

InitTiff ==
    /\ \/ \E c \in TestTiffs, order \in Orders :
            tf = [pc |-> "input", buf |-> BuildTiff(c, order)]
       \/ \E bo \in BadOrders, sp \in BadMarkers, cut \in HeaderCuts :
            tf = [pc |-> "input", buf |-> BuildHeaderTest(bo, sp, cut)]
    /\ tg = Idle /\ app = Idle /\ ex = Idle
    /\ fd = Idle /\ ac = Idle /\ ns = Idle

\* Decode from its start to the directory loop.
TiffHeaderStep ==
    /\ tf.pc = "input"
    /\ tf' = TiffBegin(tf.buf)
    /\ UNCHANGED <<tg, app, ex, fd, ac, ns>>

\* One iteration of the directory loop.  The model follows the loop for
\* MaxDirs directories.
TiffDirStep ==
    /\ tf.pc = "loop"
    /\ tf.offset # <<0, 0>>
    /\ Len(tf.Dirs) < MaxDirs
    /\ tf' = TiffLoadDir(tf)
    /\ UNCHANGED <<tg, app, ex, fd, ac, ns>>

\* The loop's exit and the return of the Tiff.
TiffReturnStep ==
    /\ tf.pc = "loop"
    /\ tf.offset = <<0, 0>>
    /\ tf' = TiffReturn(tf)
    /\ UNCHANGED <<tg, app, ex, fd, ac, ns>>

NextTiff == TiffHeaderStep \/ TiffDirStep \/ TiffReturnStep

SpecTiff == InitTiff /\ [][NextTiff]_vars

-----------------------------------------------------------------------------
(* The tiff.Decode scenario: properties *)

\* C4: tiff.Decode terminates and the directories it traverses are bounded
\* by the buffer.  The loop's whole state is the offset it seeks to, so it
\* ends exactly when no offset is loaded a second time: no two directories of
\* the traversal were decoded from the same offset.
C4_NoOffsetLoadedTwice ==
    tf.pc # "input" =>
        \A i, j \in 1..Len(tf.seen) : i # j => tf.seen[i] # tf.seen[j]

\* C7: DecodeDir returns either an error and no directory, or a directory of
\* exactly N tags, N the 2-byte count read unsigned, in the order of their
\* records, with the next offset read from the 4 bytes after the N-th
\* record; a failing k-th tag leaves no directory of the first k-1 tags.
C7_DirHoldsDeclaredTags ==
    (tf.pc # "input" /\ tf.last.called) =>
        LET at == tf.last.at
            d == tf.last.d
            N == Uint16(SubSeq(tf.buf, at + 1, at + 2), tf.last.order)
            end == at + 2 + 12 * N
        IN  \/ d.err /\ d.nil /\ d.Tags = <<>>
            \/ /\ ~d.err /\ ~d.nil
               /\ Len(d.Tags) = N
               /\ \A i \in 1..N :
                     d.Tags[i] = DecodeTag(tf.buf, at + 2 + 12 * (i - 1), tf.last.order)
               /\ end + 4 <= Len(tf.buf)
               /\ d.offset = Int32(Uint32(SubSeq(tf.buf, end + 1, end + 4), tf.last.order))

-----------------------------------------------------------------------------
(* package exif: newAppSec, in its two forms *)

\* The APP1 marker byte.
jpeg_APP1 == 225

\* The underlying reader hands out the stream in reads that end at the
\* positions in cuts (and at the end of the stream).  A bufio.Reader that has
\* consumed r bytes and fetched w of them fetches, when it needs byte q,
\* read after read up to the first read end at or after q.
CutCeil(stream, cuts, q) ==
    LET cs == {c \in cuts \cup {Len(stream)} : c >= q}
    IN  IF cs = {} THEN Len(stream) ELSE CHOOSE c \in cs : \A d \in cs : c <= d

RECURSIVE ScanPeek(_, _, _)
\* "seek to marker" of the ReadByte/Peek form: b := ReadByte (an error
\* returns), n := Peek(1), and "b == 0xFF && n[0] == marker" indexes n even
\* when Peek found no byte.  r: bytes consumed.
ScanPeek(stream, marker, r) ==
    IF r >= Len(stream) THEN [out |-> "error", r |-> r]
    ELSE IF stream[r + 1] # 255 THEN ScanPeek(stream, marker, r + 1)
    ELSE IF r + 1 >= Len(stream) THEN [out |-> "panic", r |-> r + 1]
    ELSE IF stream[r + 2] = marker THEN [out |-> "found", r |-> r + 2]
    ELSE ScanPeek(stream, marker, r + 1)

RECURSIVE ScanReadBytes(_, _, _)
\* "seek to marker" of the ReadBytes form, "for dataLen == 0": ReadBytes(0xFF),
\* c := ReadByte, continue unless c is the marker, Peek(2) for the length.
ScanReadBytes(stream, marker, r) ==
    LET ffs == {q \in (r + 1)..Len(stream) : stream[q] = 255}
        p == CHOOSE q \in ffs : \A q2 \in ffs : q <= q2
        dl == stream[p + 2] * 256 + stream[p + 3]
    IN  IF ffs = {} THEN [out |-> "error", r |-> Len(stream), len |-> 0]
        ELSE IF p + 1 > Len(stream) THEN [out |-> "error", r |-> p, len |-> 0]
        ELSE IF stream[p + 1] # marker THEN ScanReadBytes(stream, marker, p + 1)
        ELSE IF p + 3 > Len(stream) THEN [out |-> "error", r |-> p + 1, len |-> 0]
        ELSE IF dl = 0 THEN ScanReadBytes(stream, marker, p + 1)
        ELSE [out |-> "found", r |-> p + 1, len |-> dl]

\* newAppSec(marker, r) at its start: form is "peek" (ReadByte/Peek) or
\* "readbytes".
AppStart(form, marker, stream, cuts) ==
    [pc |-> "scan", form |-> form, marker |-> marker, stream |-> stream, cuts |-> cuts,
     r |-> 0, w |-> 0, found |-> FALSE, markAt |-> 0, lenField |-> 0,
     dataLen |-> 0, nread |-> 0, data |-> <<>>, res |-> "none"]

\* newAppSec leaving with an error (res "error") or a runtime panic ("panic").
AppFail(st, res) == [st EXCEPT !.pc = "done", !.res = res, !.data = <<>>]

\* newAppSec up to its "read section data" loop.  markAt is the position of
\* the 0xFF of the marker pair the scan stopped at, lenField the length read.
AppScan(st) ==
    IF st.form = "peek"
    THEN LET sc == ScanPeek(st.stream, st.marker, 0)
             lf == st.stream[sc.r + 1] * 256 + st.stream[sc.r + 2]
         IN  IF sc.out # "found" THEN AppFail(st, sc.out)
             ELSE IF sc.r + 2 > Len(st.stream) THEN AppFail(st, "error")
             ELSE [st EXCEPT !.pc = "read", !.found = TRUE, !.markAt = sc.r - 1,
                             !.lenField = lf,
                             !.dataLen = (lf + 65536 - 2) % 65536,
                             !.r = sc.r + 2,
                             !.w = CutCeil(st.stream, st.cuts, sc.r + 2)]
    ELSE LET sc == ScanReadBytes(st.stream, st.marker, 0)
         IN  IF sc.out # "found" THEN AppFail(st, sc.out)
             ELSE [st EXCEPT !.pc = "read", !.found = TRUE, !.markAt = sc.r - 1,
                             !.lenField = sc.len, !.dataLen = sc.len,
                             !.r = sc.r,
                             !.w = CutCeil(st.stream, st.cuts, sc.r + 2)]

\* One iteration of "for nread < dataLen" that keeps what it has at the end
\* of the stream and leaves the loop as if the data were complete.
AppReadLenient(st) ==
    LET m == st.dataLen - st.nread
        eof == st.r = st.w /\ st.w = Len(st.stream)
        w1 == IF st.r = st.w THEN CutCeil(st.stream, st.cuts, st.w + 1) ELSE st.w
        n == IF m < w1 - st.r THEN m ELSE w1 - st.r
    IN  IF eof THEN [st EXCEPT !.nread = st.dataLen]
        ELSE [st EXCEPT !.r = st.r + n, !.w = w1, !.nread = st.nread + n,
                        !.data = st.data \o SubSeq(st.stream, st.r + 1, st.r + n)]

\* One iteration of "for nread < dataLen": s := make([]byte, dataLen-nread),
\* n, err := Read(s).  bufio's Read copies what is buffered, or with an empty
\* buffer what one read of the underlying reader brings; at the end of the
\* stream it returns 0 and io.EOF.  The "peek" form appends all of s, the
\* "readbytes" form s[:n].
AppRead(st) ==
    LET m == st.dataLen - st.nread
        eof == st.r = st.w /\ st.w = Len(st.stream)
        w1 == IF st.r = st.w THEN CutCeil(st.stream, st.cuts, st.w + 1) ELSE st.w
        n == IF m < w1 - st.r THEN m ELSE w1 - st.r
        got == SubSeq(st.stream, st.r + 1, st.r + n)
    IN  IF eof THEN AppFail(st, "error")
        ELSE [st EXCEPT !.r = st.r + n, !.w = w1, !.nread = st.nread + n,
                        !.data = IF st.form = "peek"
                                 THEN st.data \o got \o [i \in 1..(m - n) |-> 0]
                                 ELSE st.data \o got]

\* newAppSec after the loop: "return app, nil", in the "readbytes" form after
\* "app.data = app.data[2:]".
AppReturn(st) ==
    IF st.form = "peek" THEN [st EXCEPT !.pc = "done", !.res = "ok"]
    ELSE IF Len(st.data) < 2 THEN AppFail(st, "panic")
    ELSE [st EXCEPT !.pc = "done", !.res = "ok",
                    !.data = SubSeq(st.data, 3, Len(st.data))]

RECURSIVE AppLoop(_)
\* The "read section data" loop run to its end.
AppLoop(st) ==
    IF st.pc = "done" THEN st
    ELSE IF st.nread >= st.dataLen THEN AppReturn(st)
    ELSE AppLoop(AppRead(st))

\* newAppSec(marker, r) as a whole.
newAppSec(form, marker, stream, cuts) ==
    AppLoop(AppScan(AppStart(form, marker, stream, cuts)))

\* appSec.exifReader: the data after "Exif\0\0", or an error.
exifReader(data) ==
    IF Len(data) < 6 THEN [err |-> TRUE, bytes |-> <<>>]
    ELSE IF SubSeq(data, 1, 6) # <<69, 120, 105, 102, 0, 0>> THEN [err |-> TRUE, bytes |-> <<>>]
    ELSE [err |-> FALSE, bytes |-> SubSeq(data, 7, Len(data))]

-----------------------------------------------------------------------------
(* The newAppSec scenario: JPEG streams, read splits, one step per part *)

\* What precedes the APP1 marker pair: nothing, the SOI marker, the SOI
\* marker and a 0xFF fill byte, and bytes with a lone 0xFF.
Preambles == {<<>>, <<255, 216>>, <<255, 216, 255>>, <<1, 255, 0>>}

\* Payload lengths of the test segments.
PayLens == {0, 1, 4, 7}

\* The length fields tried for a payload of k bytes: the true one, one that
\* declares 3 bytes more, 2, and for the 1-byte payload 0 and 1 as well.
LenFields(k) == {k + 2, k + 5, 2} \cup (IF k = 1 THEN {0, 1} ELSE {})

\* What follows the payload: nothing, the EOI marker, a lone 0xFF, and a
\* second APP1 segment.
Tails == {<<>>, <<255, 217>>, <<255>>, <<255, 225, 0, 3, 9>>}

\* Streams without a complete marker pair and length.
Stubs == {<<>>, <<1, 2, 3>>, <<255>>, <<255, 216, 255>>, <<255, 225>>, <<255, 225, 0>>}

BuildJpeg(pre, len, k, tail) ==
    pre \o <<255, jpeg_APP1, len \div 256, len % 256>> \o SubSeq(Pattern, 1, k) \o tail

JpegStreams ==
    Stubs \cup
    UNION { { BuildJpeg(pre, len, k, tail) :
                pre \in Preambles, len \in LenFields(k), tail \in Tails }
            : k \in PayLens }

\* The ways the reader splits a stream that are tried: one read, one byte
\* per read, and two reads split at any place.
CutSets(stream) ==
    {{}, 1..(Len(stream) - 1)} \cup {{c} : c \in 1..(Len(stream) - 1)}

Forms == {"peek", "readbytes"}

InitApp ==
    /\ \E stream \in JpegStreams, form \in Forms :
         \E cuts \in CutSets(stream) :
            app = AppStart(form, jpeg_APP1, stream, cuts)
    /\ tg = Idle /\ tf = Idle /\ ex = Idle
    /\ fd = Idle /\ ac = Idle /\ ns = Idle

\* The marker scan and the length.
AppScanStep ==
    /\ app.pc = "scan"
    /\ app' = AppScan(app)
    /\ UNCHANGED <<tg, tf, ex, fd, ac, ns>>

\* One iteration of the data loop.
AppReadStep ==
    /\ app.pc = "read"
    /\ app.nread < app.dataLen
    /\ app' = AppRead(app)
    /\ UNCHANGED <<tg, tf, ex, fd, ac, ns>>

\* The return after the loop.
AppReturnStep ==
    /\ app.pc = "read"
    /\ app.nread >= app.dataLen
    /\ app' = AppReturn(app)
    /\ UNCHANGED <<tg, tf, ex, fd, ac, ns>>

NextApp == AppScanStep \/ AppReadStep \/ AppReturnStep

SpecApp == InitApp /\ [][NextApp]_vars

-----------------------------------------------------------------------------
(* The newAppSec scenario: properties *)

\* The stream positions p with stream[p] = 0xFF and stream[p+1] = 0xE1.
MarkerPairs(stream) ==
    {p \in 1..(Len(stream) - 1) : stream[p] = 255 /\ stream[p + 1] = jpeg_APP1}

\* The segment newAppSec settled on declares more data than the stream has
\* after its length field.
DeclaresTooMuch(a) ==
    /\ a.found
    /\ a.lenField >= 2
    /\ a.lenField - 2 > Len(a.stream) - (a.markAt + 3)

\* C8: when the APP1 length field declares more bytes than remain before the
\* end of the input, newAppSec returns an error and no segment made of the
\* bytes that were there, and so does exif.Decode, which builds no document.
C8_TruncatedSegmentFails ==
    /\ (app.pc = "done" /\ DeclaresTooMuch(app)) =>
          (app.res = "error" /\ app.data = <<>>)
    /\ (ex.pc = "done" /\ ex.scanned /\ DeclaresTooMuch(ex.sec)) =>
          (ex.sec.res = "error" /\ ex.res = "error" /\ ex.nil /\ ex.main = <<>>)

\* C8's case: a segment declared too long, of which some bytes were read
\* before the stream ended and the error came.
C8_Witness ==
    /\ app.pc = "done" /\ DeclaresTooMuch(app)
    /\ app.nread > 0 /\ app.r = Len(app.stream)
    /\ app.res = "error"

\* C9: for every stream and every split into reads, newAppSec stops at the
\* first position p with stream[p] = 0xFF and stream[p+1] = 0xE1 and takes the
\* two bytes after the pair as the length, also when the pair is split over
\* two reads and when another 0xFF comes right before it.
C9_StopsAtFirstMarker ==
    (/\ app.pc # "scan"
     /\ \E p \in MarkerPairs(app.stream) : p + 3 <= Len(app.stream)) =>
        LET ps == MarkerPairs(app.stream)
            p == CHOOSE q \in ps : \A q2 \in ps : q <= q2
        IN  p + 3 <= Len(app.stream) =>
              /\ app.found
              /\ app.markAt = p
              /\ app.lenField = app.stream[p + 2] * 256 + app.stream[p + 3]

-----------------------------------------------------------------------------
(* package exif: Decode with the raw-TIFF detection, and the document *)

exifPointer == 34665
gpsPointer == 34853
interopPointer == 40965

\* x.main[tag.Id] = tag
SetTag(main, t) ==
    [id \in DOMAIN main \cup {t.Id} |-> IF id = t.Id THEN t ELSE main[id]]

RECURSIVE LoadTags(_, _)
\* "for _, tag := range dir.Tags { x.main[tag.Id] = tag }"
LoadTags(main, tags) ==
    IF tags = <<>> THEN main ELSE LoadTags(SetTag(main, Head(tags)), Tail(tags))

\* loadSubDir after "subDir, _, err := tiff.DecodeDir(r, x.tif.Order)".
SubDirLoaded(main, sub) ==
    IF sub.err THEN [out |-> "error", main |-> main]
    ELSE [out |-> "ok", main |-> LoadTags(main, sub.Tags)]

\* x.loadSubDir(r, tagId) on the document map main, r over the bytes er:
\* [out, main] with out "ok", "error", or "panic" for the panics of tag.Int(0).
loadSubDir(main, er, order, tagId) ==
    LET tag == main[tagId]
        offset == tag.intVals[1]
    IN  IF tagId \notin DOMAIN main THEN [out |-> "ok", main |-> main]
        ELSE IF tag.Type \notin {1, 3, 4, 6, 8, 9} \/ Len(tag.intVals) = 0
             THEN [out |-> "panic", main |-> main]
        ELSE IF offset[1] < 0 THEN [out |-> "error", main |-> main]
        ELSE IF offset[1] > 0 THEN [out |-> "error", main |-> main]
        ELSE SubDirLoaded(main, DecodeDir(er, offset[2], order))

RECURSIVE LoadSubDirs(_, _, _, _)
\* Decode after one loadSubDir, s its outcome: return on an error (or panic),
\* else the next pointer.
AfterSubDir(s, er, order, ids) ==
    IF s.out # "ok" THEN s ELSE LoadSubDirs(s.main, er, order, ids)

\* The calls of loadSubDir for the pointers ids, in order.
LoadSubDirs(main, er, order, ids) ==
    IF ids = <<>> THEN [out |-> "ok", main |-> main]
    ELSE AfterSubDir(loadSubDir(main, er, order, Head(ids)), er, order, Tail(ids))

\* exif.Decode(r) at its start; cuts are the read ends of r.
ExifStart(stream, cuts) ==
    [pc |-> "input", stream |-> stream, cuts |-> cuts, isTiff |-> FALSE,
     scanned |-> FALSE, sec |-> AppStart("peek", jpeg_APP1, <<>>, {}),
     err |-> FALSE, tifIn |-> <<>>, tif |-> TiffFail(<<>>),
     er |-> <<>>, res |-> "none", nil |-> TRUE, main |-> <<>>]

\* Decode returning: res is "error" (an error value), "ok", "panic" (a
\* runtime panic) or "spin" (tiff.Decode never came back).
ExifEnd(st, res) == [st EXCEPT !.pc = "done", !.res = res]

\* "n, err := r.Read(header)": one read, and the test of the four bytes.
ExifHeader(st) ==
    LET got == CutCeil(st.stream, st.cuts, 1)
        header == SubSeq(st.stream, 1, 4)
    IN  IF got < 4 THEN ExifEnd(st, "error")
        ELSE [st EXCEPT !.pc = "container",
                        !.isTiff = header \in {<<73, 73, 42, 0>>, <<77, 77, 0, 42>>}]

\* Decode after "tif, err = tiff.Decode(...)" on the bytes er; outer tells
\* whether the err assigned is the err that is tested after the branches.
ExifWithTiff(st, er, tif, outer) ==
    [st EXCEPT !.pc = "build", !.tifIn = er, !.tif = tif, !.er = er,
               !.err = outer /\ tif.err]

\* The isTiff branch: tiff.Decode on all of the input, er all of the input.
ExifTiff(st) == ExifWithTiff(st, st.stream, TiffDecode(st.stream), TRUE)

\* The JPEG branch after "sec, err := newAppSec(0xE1, r)".
ExifAfterSec(st, sec) ==
    LET rd == exifReader(sec.data)
        st1 == [st EXCEPT !.sec = sec]
    IN  IF sec.res # "ok" THEN ExifEnd(st1, sec.res)
        ELSE IF rd.err THEN ExifEnd(st1, "error")
        ELSE ExifWithTiff(st1, rd.bytes, TiffDecode(rd.bytes), FALSE)

\* The other branch: newAppSec on the header bytes followed by the rest of
\* r, exifReader, tiff.Decode.  The err that tiff.Decode's result is assigned
\* to is the one declared by "sec, err :=" inside the branch, so the err
\* tested after the branch stays nil.
ExifJpeg(st) ==
    ExifAfterSec([st EXCEPT !.scanned = TRUE],
                 newAppSec("peek", jpeg_APP1, st.stream,
                           {4} \cup {c \in st.cuts : c > 4}))

\* Decode's return after the loadSubDir calls, s their outcome: the document
\* with a nil error or with the error of the failing call, or the panic.
ExifDoc(st, s) ==
    IF s.out = "panic" THEN ExifEnd(st, "panic")
    ELSE [ExifEnd(st, s.out) EXCEPT !.nil = FALSE, !.main = s.main]

\* From "if err != nil" on: the document from tif.Dirs[0], then the three
\* sub-directories; a failing loadSubDir returns the document and the error.
ExifBuild(st) ==
    IF st.err THEN ExifEnd(st, "error")
    ELSE IF st.tif.pc = "spin" THEN ExifEnd(st, "spin")
    ELSE IF st.tif.err THEN ExifEnd(st, "panic")
    ELSE IF Len(st.tif.Dirs) = 0 THEN ExifEnd(st, "panic")
    ELSE ExifDoc(st, LoadSubDirs(LoadTags(<<>>, st.tif.Dirs[1].Tags), st.er, st.tif.order,
                                 <<exifPointer, gpsPointer, interopPointer>>))

\* The part of Decode that comes next in state st.
ExifStep(st) ==
    CASE st.pc = "input" -> ExifHeader(st)
      [] st.pc = "container" /\ st.isTiff -> ExifTiff(st)
      [] st.pc = "container" /\ ~st.isTiff -> ExifJpeg(st)
      [] st.pc = "build" -> ExifBuild(st)

RECURSIVE ExifRun(_)
\* Decode run to its return.
ExifRun(st) == IF st.pc = "done" THEN st ELSE ExifRun(ExifStep(st))

\* exif.Decode(r) as a whole.
ExifDecode(stream, cuts) == ExifRun(ExifStart(stream, cuts))

-----------------------------------------------------------------------------
(* The exif.Decode scenario: inputs, and one step per part of Decode *)

\* The pointer tags tried in IFD0: which sub-directory, the tag's type, and
\* where it points ("sub": the sub-directory, "self": IFD0, "far": beyond the
\* buffer, "neg": 0xFFFFFFFF).
PtrIds == {exifPointer, gpsPointer, interopPointer}
PtrTypes == {4, 3, 2, 9}
PtrTargets == {"sub", "self", "far", "neg"}
\* The component counts of a pointer tag: one offset, or none.
PtrCounts == {1, 0}

\* The 4 value bytes of a pointer tag of type typ pointing to offset v.
PtrValue(typ, v, order) ==
    CASE typ \in {4, 9} -> Put32(v, order)
      [] typ = 3 -> Put16(v[2], order) \o <<0, 0>>
      [] OTHER -> <<v[2] % 256, 0, 0, 0>>

\* A container for exif.Decode: IFD0 at 8 with a short tag, optionally an
\* undefined tag whose value holds the bytes FF E1, optionally a pointer tag;
\* then a sub-directory of one short tag whose id is new or is IFD0's.
BuildExifTiff(c, order) ==
    LET bo == IF order = "LE" THEN <<73, 73>> ELSE <<77, 77>>
        nTags == 1 + (IF c.mark THEN 1 ELSE 0) + (IF c.ptr THEN 1 ELSE 0)
        sub == 8 + 2 + 12 * nTags + 4
        v == CASE c.target = "sub" -> <<0, sub>>
               [] c.target = "self" -> <<0, 8>>
               [] c.target = "far" -> <<0, 200>>
               [] OTHER -> <<65535, 65535>>
        short == TagRec(271, 3, <<0, 1>>, Put16(4370, order) \o <<0, 0>>, order)
        mark == IF c.mark THEN TagRec(37500, 7, <<0, 4>>, <<255, 225, 0, 8>>, order)
                ELSE <<>>
        ptr == IF c.ptr THEN TagRec(c.id, c.typ, <<0, c.cnt>>, PtrValue(c.typ, v, order), order)
               ELSE <<>>
    IN  bo \o Put16(42, order) \o Put32(<<0, 8>>, order)
        \o Put16(nTags, order) \o short \o mark \o ptr \o Put32(<<0, 0>>, order)
        \o Put16(1, order)
        \o TagRec(c.subId, 3, <<0, 1>>, Put16(8738, order) \o <<0, 0>>, order)
        \o Put32(<<0, 0>>, order)

SubIds == {33434, 271}

ExifTiffs ==
    { BuildExifTiff([mark |-> m, ptr |-> FALSE, id |-> exifPointer, typ |-> 4, cnt |-> 1,
                     target |-> "sub", subId |-> 271], order) :
        m \in BOOLEAN, order \in Orders }
    \cup
    { BuildExifTiff([mark |-> m, ptr |-> TRUE, id |-> id, typ |-> typ, cnt |-> 1,
                     target |-> tgt, subId |-> sid], order) :
        m \in BOOLEAN, id \in PtrIds, typ \in PtrTypes, tgt \in PtrTargets,
        sid \in SubIds, order \in Orders }
    \cup
    { BuildExifTiff([mark |-> FALSE, ptr |-> TRUE, id |-> id, typ |-> 4, cnt |-> cnt,
                     target |-> tgt, subId |-> gpsPointer], order) :
        id \in PtrIds, cnt \in PtrCounts, tgt \in {"sub", "far"}, order \in Orders }

\* Containers of the tiff.Decode scenario given to exif.Decode as well: no
\* first directory, a failing tag, counts with the top bit set, a cycle.
PlainTiffs ==
    { BuildTiff([first |-> f, n |-> n, names |-> names, next |-> nx, dir2 |-> "none"],
                order) :
        f \in {<<0, 0>>, <<0, 8>>}, names \in {<<>>, <<"short">>, <<"bad">>},
        n \in {0, 1, 65535}, nx \in {<<0, 0>>, <<0, 8>>}, order \in Orders }

\* Containers with a wrong or cut header.
HeaderTests ==
    { BuildHeaderTest(bo, sp, cut) : bo \in BadOrders, sp \in BadMarkers, cut \in {6, 26} }

\* The container as the whole input, in the APP1 segment of a JPEG stream,
\* or in a JPEG stream that ends 3 bytes before the segment does.
Wraps == {"raw", "jpeg", "cut"}

BuildStream(T, wrap) ==
    LET jpeg == <<255, 216, 255, jpeg_APP1>> \o Put16(Len(T) + 8, "BE")
                \o <<69, 120, 105, 102, 0, 0>> \o T \o <<255, 217>>
    IN  CASE wrap = "raw" -> T
          [] wrap = "jpeg" -> jpeg
          [] OTHER -> SubSeq(jpeg, 1, Len(jpeg) - 5)

\* The read ends tried: one read for all, a first read of 3 bytes, and a
\* read ending inside the first directory.
ExifCutSets == {{}, {3}, {30}}

InitExif ==
    /\ \E T \in ExifTiffs \cup PlainTiffs \cup HeaderTests, wrap \in Wraps,
          cuts \in ExifCutSets :
         ex = ExifStart(BuildStream(T, wrap), cuts) @@ [T |-> T, wrap |-> wrap]
    /\ tg = Idle /\ tf = Idle /\ app = Idle
    /\ fd = Idle /\ ac = Idle /\ ns = Idle

\* The header read and the TIFF / JPEG decision.
ExifHeaderStep ==
    /\ ex.pc = "input"
    /\ ex' = ExifHeader(ex)
    /\ UNCHANGED <<tg, tf, app, fd, ac, ns>>

\* The raw-TIFF branch.
ExifTiffStep ==
    /\ ex.pc = "container" /\ ex.isTiff
    /\ ex' = ExifTiff(ex)
    /\ UNCHANGED <<tg, tf, app, fd, ac, ns>>

\* The JPEG branch.
ExifJpegStep ==
    /\ ex.pc = "container" /\ ~ex.isTiff
    /\ ex' = ExifJpeg(ex)
    /\ UNCHANGED <<tg, tf, app, fd, ac, ns>>

\* The document.
ExifBuildStep ==
    /\ ex.pc = "build"
    /\ ex' = ExifBuild(ex)
    /\ UNCHANGED <<tg, tf, app, fd, ac, ns>>

NextExif == ExifHeaderStep \/ ExifTiffStep \/ ExifJpegStep \/ ExifBuildStep

SpecExif == InitExif /\ [][NextExif]_vars

\* newAppSec called by itself or by exif.Decode.
SpecJpeg == (InitApp \/ InitExif) /\ [][NextApp \/ NextExif]_vars

-----------------------------------------------------------------------------
(* The exif.Decode scenario: properties *)

\* The container's first two bytes are neither "II" nor "MM", or its next
\* two bytes read in the selected byte order are not 0x002A.
BadHeader(T) ==
    /\ Len(T) >= 4
    /\ LET bo == SubSeq(T, 1, 2)
           order == IF bo = <<73, 73>> THEN "LE" ELSE "BE"
       IN  \/ bo \notin {<<73, 73>>, <<77, 77>>}
           \/ Uint16(SubSeq(T, 3, 4), order) # 42

\* C5: a container with a wrong byte-order marker or a wrong 0x002A marker is
\* rejected: tiff.Decode returns an error and no Tiff, and exif.Decode, given
\* the container as its input or in a JPEG APP1 segment, returns an error and
\* builds no document.
C5_BadHeaderRejected ==
    (ex.pc = "done" /\ BadHeader(ex.T)) =>
        /\ TiffDecode(ex.T).err /\ TiffDecode(ex.T).Dirs = <<>>
        /\ ex.res = "error" /\ ex.nil /\ ex.main = <<>>

\* The first four bytes of the input are "II*\0" or "MM\0*".
StartsAsTiff(stream) ==
    /\ Len(stream) >= 4
    /\ SubSeq(stream, 1, 4) \in {<<73, 73, 42, 0>>, <<77, 77, 0, 42>>}

\* C10: an input that starts "II*\0" or "MM\0*" is not scanned for APP1 and
\* is decoded whole, from byte 0, as the TIFF container; and a container T
\* that decodes successfully gives the same fields and values when decoded
\* from the JPEG stream whose APP1 segment is "Exif\0\0" followed by T.
C10_RawTiffAsJpegPayload ==
    /\ (ex.pc = "done" /\ StartsAsTiff(ex.stream)) =>
          (~ex.scanned /\ ex.tifIn = ex.stream)
    /\ (ex.pc = "done" /\ ex.wrap = "jpeg" /\ ExifDecode(ex.T, {}).res = "ok") =>
          (ex.res = "ok" /\ ex.main = ExifDecode(ex.T, {}).main)

-----------------------------------------------------------------------------
(* package exif by field names: the tables, Decode, the maker notes, Get *)
(* and Walk.  A FieldName is a tuple: <<"Make">> for a name of a table,   *)
(* the prefix followed by the hex digits for a synthesized name.          *)

RECURSIVE HexDigits(_)
\* The digits "%x" prints for n.
HexDigits(n) == IF n < 16 THEN <<n>> ELSE Append(HexDigits(n \div 16), n % 16)

unknownPrefix == "UnknownTag_"

\* fmt.Sprintf("%v%x", unknownPrefix, tag.Id)
UnknownName(id) == <<unknownPrefix>> \o HexDigits(id)

Make == <<"Make">>
MakerNote == <<"MakerNote">>
ExifIFDPointer == <<"ExifIFDPointer">>
GPSInfoIFDPointer == <<"GPSInfoIFDPointer">>
InteroperabilityIFDPointer == <<"InteroperabilityIFDPointer">>

\* The tables from tag id to field name (the entries the scenario uses).
exifFields ==
    (271 :> Make) @@ (33434 :> <<"ExposureTime">>) @@ (37500 :> MakerNote)
    @@ (exifPointer :> ExifIFDPointer) @@ (gpsPointer :> GPSInfoIFDPointer)
    @@ (interopPointer :> InteroperabilityIFDPointer)

gpsFields == (0 :> <<"GPSVersionID">>) @@ (1 :> <<"GPSLatitudeRef">>)

interopFields == (1 :> <<"InteroperabilityIndex">>)

makerNoteCanonFields == (1 :> <<"Canon.CameraSettings">>)

makerNoteNikon3Fields == (1 :> <<"Nikon.Version">>)

\* The names of a table: what addValidFields adds to validField.
addValidFields(fields) == {fields[id] : id \in DOMAIN fields}

\* validField after init().
validField ==
    addValidFields(exifFields) \cup addValidFields(gpsFields)
    \cup addValidFields(gpsFields) \cup addValidFields(makerNoteCanonFields)
    \cup addValidFields(makerNoteNikon3Fields)

\* "name := fieldMap[tag.Id]; if name == "" { name = ...unknownPrefix... }"
FieldOf(fieldMap, id) ==
    IF id \in DOMAIN fieldMap THEN fieldMap[id] ELSE UnknownName(id)

\* x.main[name] = tag
SetField(main, name, t) ==
    [n \in DOMAIN main \cup {name} |-> IF n = name THEN t ELSE main[n]]

RECURSIVE loadDirTags(_, _, _)
\* x.loadDirTags(d, fieldMap), tags the tags of d.
loadDirTags(main, tags, fieldMap) ==
    IF tags = <<>> THEN main
    ELSE loadDirTags(SetField(main, FieldOf(fieldMap, Head(tags).Id), Head(tags)),
                     Tail(tags), fieldMap)

\* Get(name): out is "ok" (the tag and a nil error), "absent" (a
\* TagNotPresentError) or "invalid" (the invalid tag name error).
Get(main, name) ==
    IF name \notin validField THEN [out |-> "invalid", name |-> name]
    ELSE IF name \in DOMAIN main THEN [out |-> "ok", name |-> name, tag |-> main[name]]
    ELSE [out |-> "absent", name |-> name]

\* loadSubDir by field name after tiff.DecodeDir.
FieldSubDirLoaded(main, sub, fieldMap) ==
    IF sub.err THEN [out |-> "error", main |-> main]
    ELSE [out |-> "ok", main |-> loadDirTags(main, sub.Tags, fieldMap)]

\* x.loadSubDir(r, ptrName, fieldMap): as loadSubDir above, the pointer
\* looked up by its field name and the tags named by fieldMap.
FieldLoadSubDir(main, er, order, ptrName, fieldMap) ==
    LET tag == main[ptrName]
        offset == tag.intVals[1]
    IN  IF ptrName \notin DOMAIN main THEN [out |-> "ok", main |-> main]
        ELSE IF tag.Type \notin {1, 3, 4, 6, 8, 9} \/ Len(tag.intVals) = 0
             THEN [out |-> "panic", main |-> main]
        ELSE IF offset[1] # 0 THEN [out |-> "error", main |-> main]
        ELSE FieldSubDirLoaded(main, DecodeDir(er, offset[2], order), fieldMap)

\* The three calls of loadSubDir in Decode, in order.
SubDirCalls ==
    << [ptr |-> ExifIFDPointer, fields |-> exifFields],
       [ptr |-> GPSInfoIFDPointer, fields |-> gpsFields],
       [ptr |-> InteroperabilityIFDPointer, fields |-> interopFields] >>

RECURSIVE FieldSubDirs(_, _, _, _)
\* Decode after one loadSubDir: "if err = ...; err != nil { return x, err }".
AfterFieldSubDir(s, er, order, calls) ==
    IF s.out # "ok" THEN s ELSE FieldSubDirs(s.main, er, order, calls)

FieldSubDirs(main, er, order, calls) ==
    IF calls = <<>> THEN [out |-> "ok", main |-> main]
    ELSE AfterFieldSubDir(
             FieldLoadSubDir(main, er, order, Head(calls).ptr, Head(calls).fields),
             er, order, Tail(calls))

\* Where loadCanonMakerNotes seeks to.
canonOffset == 826

\* The strings the maker notes are told by: "Canon" and "Nikon\000".
CanonMake == <<67, 97, 110, 111, 110>>
NikonMark == <<78, 105, 107, 111, 110, 0>>

\* loadCanonMakerNotes after tiff.DecodeDir: the tags on success, a printed
\* message otherwise.
CanonDirLoaded(main, sub) ==
    IF sub.err THEN [out |-> "ok", main |-> main]
    ELSE [out |-> "ok", main |-> loadDirTags(main, sub.Tags, makerNoteCanonFields)]

\* x.loadCanonMakerNotes(r): Seek to canonOffset, DecodeDir.
loadCanonMakerNotes(main, er, order) ==
    CanonDirLoaded(main, DecodeDir(er, canonOffset, order))

\* loadNikonV3MakerNotes after tiff.Decode: "if err == nil" the tags of
\* mkNotes.Dirs[0], whose index panics when there is no directory.
NikonTiffLoaded(main, tif) ==
    IF tif.pc = "spin" THEN [out |-> "spin", main |-> main]
    ELSE IF tif.err THEN [out |-> "ok", main |-> main]
    ELSE IF Len(tif.Dirs) = 0 THEN [out |-> "panic", main |-> main]
    ELSE [out |-> "ok", main |-> loadDirTags(main, tif.Dirs[1].Tags, makerNoteNikon3Fields)]

\* x.loadNikonV3MakerNotes(m): tiff.Decode on m.Val[10:], a slice that
\* panics when m.Val has fewer than 10 bytes.
loadNikonV3MakerNotes(main, m) ==
    IF Len(m.Val) < 10 THEN [out |-> "panic", main |-> main]
    ELSE NikonTiffLoaded(main, TiffDecode(SubSeq(m.Val, 11, Len(m.Val))))

\* The "else if" of loadMakerNotes: m.Val[:6], a slice that panics when
\* m.Val has fewer than 6 bytes, compared with "Nikon\000".
NikonBranch(main, m) ==
    IF Len(m.Val) < 6 THEN [out |-> "panic", main |-> main]
    ELSE IF SubSeq(m.Val, 1, 6) = NikonMark THEN loadNikonV3MakerNotes(main, m)
    ELSE [out |-> "ok", main |-> main]

\* loadMakerNotes with m the MakerNote tag and mk the outcome of Get(Make);
\* mk.StringVal() panics on a tag that is not a string.
MakerNotesOf(main, er, order, m, mk) ==
    IF mk.out = "ok" /\ mk.tag.Type # 2 THEN [out |-> "panic", main |-> main]
    ELSE IF mk.out = "ok" /\ mk.tag.strVal = CanonMake
         THEN loadCanonMakerNotes(main, er, order)
    ELSE NikonBranch(main, m)

\* x.loadMakerNotes(r): [out, main], out "ok" for a return, "panic", "spin".
loadMakerNotes(main, er, order) ==
    IF Get(main, MakerNote).out # "ok" THEN [out |-> "ok", main |-> main]
    ELSE MakerNotesOf(main, er, order, Get(main, MakerNote).tag, Get(main, Make))

\* Decode by field names at its start; cuts are the read ends of r.  core
\* is the document when loadMakerNotes is called.
FieldStart(stream, cuts) ==
    [pc |-> "input", stream |-> stream, cuts |-> cuts, er |-> <<>>, order |-> "BE",
     ifd0 |-> <<>>, res |-> "none", nil |-> TRUE, main |-> <<>>, core |-> <<>>]

FieldEnd(st, res) == [st EXCEPT !.pc = "done", !.res = res]

\* Decode after the calls of loadSubDir, s their outcome.
FieldAfterSubDirs(st, s) ==
    IF s.out = "panic" THEN FieldEnd(st, "panic")
    ELSE IF s.out = "error"
         THEN [FieldEnd(st, "error") EXCEPT !.nil = FALSE, !.main = s.main]
    ELSE [st EXCEPT !.pc = "notes", !.nil = FALSE, !.main = s.main, !.core = s.main]

\* Decode after tiff.Decode on the bytes er: the error, x.loadDirTags on
\* tif.Dirs[0] (an index that panics when there is no directory), and the
\* sub-directories.
FieldAfterTiff(st, er, tif) ==
    IF tif.pc = "spin" THEN FieldEnd(st, "spin")
    ELSE IF tif.err THEN FieldEnd(st, "error")
    ELSE IF Len(tif.Dirs) = 0 THEN FieldEnd(st, "panic")
    ELSE FieldAfterSubDirs(
             [st EXCEPT !.er = er, !.order = tif.order, !.ifd0 = tif.Dirs[1].Tags],
             FieldSubDirs(loadDirTags(<<>>, tif.Dirs[1].Tags, exifFields),
                          er, tif.order, SubDirCalls))

\* Decode after sec.exifReader().
FieldAfterReader(st, rd) ==
    IF rd.err THEN FieldEnd(st, "error")
    ELSE FieldAfterTiff(st, rd.bytes, TiffDecode(rd.bytes))

\* Decode after newAppSec.
FieldAfterSec(st, sec) ==
    IF sec.res # "ok" THEN FieldEnd(st, sec.res)
    ELSE FieldAfterReader(st, exifReader(sec.data))

\* Decode up to "x.loadMakerNotes(er)".
FieldCore(st) ==
    FieldAfterSec(st, newAppSec("readbytes", jpeg_APP1, st.stream, st.cuts))

\* Decode from loadMakerNotes, n its outcome, to "return x, nil".
FieldAfterNotes(st, n) ==
    IF n.out = "ok" THEN [FieldEnd(st, "ok") EXCEPT !.main = n.main]
    ELSE [FieldEnd(st, n.out) EXCEPT !.nil = TRUE, !.main = <<>>]

FieldNotes(st) == FieldAfterNotes(st, loadMakerNotes(st.main, st.er, st.order))

RECURSIVE WalkFrom(_, _, _, _, _)
\* The loop of Walk over x.main in the order the map iteration yields the
\* names; the visitor w returns an error on its failAt-th call (never when
\* failAt is 0).  calls are the calls of w.Walk made, ret what Walk returns.
WalkFrom(main, order, i, failAt, calls) ==
    IF i > Len(order) THEN [calls |-> calls, ret |-> "nil"]
    ELSE IF Len(calls) + 1 = failAt
         THEN [calls |-> Append(calls, [name |-> order[i], tag |-> main[order[i]]]),
               ret |-> "visitor error"]
    ELSE WalkFrom(main, order, i + 1, failAt,
                  Append(calls, [name |-> order[i], tag |-> main[order[i]]]))

\* Walk with the visitor's error dropped: the loop goes on to the end.
WalkIgnoringError(main, order, failAt) == WalkFrom(main, order, 1, 0, <<>>)

\* x.Walk(w)
Walk(main, order, failAt) == WalkFrom(main, order, 1, failAt, <<>>)

-----------------------------------------------------------------------------
(* package mknote: the parsers called on a decoded document *)

\* "Nikon\000\001\000" and "Nikon\000\002"
NikonV1Mark == <<78, 105, 107, 111, 110, 0, 1, 0>>
NikonV3Mark == <<78, 105, 107, 111, 110, 0, 2>>
\* "MM\000*" and "II*\000"
TiffMarks == {<<77, 77, 0, 42>>, <<73, 73, 42, 0>>}

\* "append(make([]byte, m.ValOffset), m.Val...)"
NoteBuffer(m) == [i \in 1..m.ValOffset[2] |-> 0] \o m.Val

\* A parser's return: out is "nil", "error", "panic" or "spin"; called tells
\* whether it handed a directory to x.LoadTags / x.LoadDirTags, tags are the
\* tags of that directory.
ParseEnd(out) == [out |-> out, called |-> FALSE, tags |-> <<>>]
ParseLoads(tags) == [out |-> "nil", called |-> TRUE, tags |-> tags]

\* After "mkNotesDir, _, err := tiff.DecodeDir(buf, x.Tiff.Order)".
ParseAfterDir(d) == IF d.err THEN ParseEnd("error") ELSE ParseLoads(d.Tags)

\* After "mkNotes, err := tiff.Decode(...)": the error, or mkNotes.Dirs[0],
\* an index that panics when there is no directory.
ParseAfterTiff(tif) ==
    IF tif.pc = "spin" THEN ParseEnd("spin")
    ELSE IF tif.err THEN ParseEnd("error")
    ELSE IF Len(tif.Dirs) = 0 THEN ParseEnd("panic")
    ELSE ParseLoads(tif.Dirs[1].Tags)

\* canon.Parse from "mk, err := x.Get(exif.Make)" on, m the MakerNote tag.
CanonParseOf(m, mk, order) ==
    IF mk.out # "ok" THEN ParseEnd("nil")
    ELSE IF mk.tag.Type # 2 \/ mk.tag.strVal # CanonMake THEN ParseEnd("nil")
    ELSE ParseAfterDir(DecodeDir(NoteBuffer(m), m.ValOffset[2], order))

\* canon.Parse(x)
canonParse(main, order) ==
    IF Get(main, MakerNote).out # "ok" THEN ParseEnd("nil")
    ELSE CanonParseOf(Get(main, MakerNote).tag, Get(main, Make), order)

\* The branch of nikonV3.Parse for "Nikon\000\002": m.Val[10:14], a slice
\* that panics when m.Val has fewer than 14 bytes.
NikonV3Branch(m) ==
    IF Len(m.Val) < 14 THEN ParseEnd("panic")
    ELSE IF SubSeq(m.Val, 11, 14) \in TiffMarks
         THEN ParseAfterTiff(TiffDecode(SubSeq(m.Val, 11, Len(m.Val))))
    ELSE ParseEnd("nil")

\* nikonV3.Parse with m the MakerNote tag: m.Val[:8] panics when m.Val has
\* fewer than 8 bytes.
NikonParseOf(m, order) ==
    IF Len(m.Val) < 8 THEN ParseEnd("panic")
    ELSE IF SubSeq(m.Val, 1, 8) = NikonV1Mark
         THEN ParseAfterDir(DecodeDir(NoteBuffer(m), m.ValOffset[2] + 8, order))
    ELSE IF SubSeq(m.Val, 1, 7) = NikonV3Mark THEN NikonV3Branch(m)
    ELSE ParseEnd("nil")

\* nikonV3.Parse(x)
nikonV3Parse(main, order) ==
    IF Get(main, MakerNote).out # "ok" THEN ParseEnd("nil")
    ELSE NikonParseOf(Get(main, MakerNote).tag, order)

\* loadNikonV3(x, m): m.Val[10:] panics when m.Val has fewer than 10 bytes.
loadNikonV3(m) ==
    IF Len(m.Val) < 10 THEN ParseEnd("panic")
    ELSE ParseAfterTiff(TiffDecode(SubSeq(m.Val, 11, Len(m.Val))))

\* loadCanon(x, m)
loadCanon(m, order) == ParseAfterDir(DecodeDir(NoteBuffer(m), m.ValOffset[2], order))

\* mknote.Decode from "mk, err := x.Get(exif.Make)" on: mk.StringVal()
\* panics on a tag that is not a string, m.Val[:6] on fewer than 6 bytes.
MknoteDecodeOf(m, mk, order) ==
    IF mk.out # "ok" THEN ParseEnd("error")
    ELSE IF mk.tag.Type # 2 THEN ParseEnd("panic")
    ELSE IF mk.tag.strVal = CanonMake THEN loadCanon(m, order)
    ELSE IF Len(m.Val) < 6 THEN ParseEnd("panic")
    ELSE IF SubSeq(m.Val, 1, 6) = NikonMark THEN loadNikonV3(m)
    ELSE ParseEnd("error")

\* mknote.Decode(x): n is the number of tags handed over, err the error.
mknoteDecode(main, order) ==
    IF Get(main, MakerNote).out # "ok" THEN ParseEnd("error")
    ELSE MknoteDecodeOf(Get(main, MakerNote).tag, Get(main, Make), order)

\* The entry points of package mknote.
Parsers == {"canon", "nikonV3", "Decode"}

MakerParse(p, main, order) ==
    CASE p = "canon" -> canonParse(main, order)
      [] p = "nikonV3" -> nikonV3Parse(main, order)
      [] OTHER -> mknoteDecode(main, order)

-----------------------------------------------------------------------------
(* The field document scenario: containers, Decode in two steps, Get, Walk *)

\* A maker-note container: "MM\0*", the first offset, one directory of one
\* short tag.
NoteTiff(first, id) ==
    <<77, 77, 0, 42>> \o Put32(first, "BE") \o Put16(1, "BE")
    \o TagRec(id, 3, <<0, 1>>, <<0, 9, 0, 0>>, "BE") \o Put32(<<0, 0>>, "BE")

\* MakerNote values: a Nikon note with a table id or an unknown id, one cut
\* before byte 10, one whose container has no directory, one with no
\* container at byte 10, a Nikon type 1 note of no tags, and another make's.
NoteBlobs ==
    { NikonMark \o <<2, 16, 0, 0>> \o NoteTiff(<<0, 8>>, 1),
      NikonMark \o <<2, 16, 0, 0>> \o NoteTiff(<<0, 8>>, 30583),
      NikonMark \o <<2, 16, 0>>,
      NikonMark \o <<2, 16, 0, 0>> \o NoteTiff(<<0, 0>>, 1),
      NikonMark \o <<2, 16, 0, 0, 1, 2, 3, 4>>,
      NikonV1Mark \o <<0, 0, 0, 0, 0, 0>>,
      <<79, 76, 89, 77, 80, 0, 1, 0>> }

\* Beyond every buffer of the scenario.
FarOffset == <<0, 60000>>

\* The record of one tag of a test container, by kind; sub is the offset of
\* the sub-directory, data that of the value area ("Canon\0", then the note).
FieldRec(kind, sub, data, blob, order) ==
    CASE kind = "make" -> TagRec(271, 2, <<0, 6>>, Put32(<<0, data>>, order), order)
      [] kind = "nimake" -> TagRec(271, 2, <<0, 3>>, <<78, 105, 0, 0>>, order)
      [] kind = "nummake" -> TagRec(271, 3, <<0, 1>>, Put16(4370, order) \o <<0, 0>>, order)
      [] kind = "expo" -> TagRec(33434, 3, <<0, 1>>, Put16(8738, order) \o <<0, 0>>, order)
      [] kind = "unk" -> TagRec(30583, 3, <<0, 1>>, Put16(1, order) \o <<0, 0>>, order)
      [] kind = "unk2" -> TagRec(30583, 3, <<0, 1>>, Put16(2, order) \o <<0, 0>>, order)
      [] kind = "gpsref" -> TagRec(1, 3, <<0, 1>>, Put16(3, order) \o <<0, 0>>, order)
      [] kind = "exifptr" -> TagRec(exifPointer, 4, <<0, 1>>, Put32(<<0, sub>>, order), order)
      [] kind = "gpsptr" -> TagRec(gpsPointer, 4, <<0, 1>>, Put32(<<0, sub>>, order), order)
      [] kind = "iopptr" -> TagRec(interopPointer, 4, <<0, 1>>, Put32(<<0, sub>>, order), order)
      [] kind = "farptr" -> TagRec(exifPointer, 4, <<0, 1>>, Put32(FarOffset, order), order)
      [] kind = "note4" -> TagRec(37500, 7, <<0, 4>>, <<1, 2, 3, 4>>, order)
      [] kind = "note" -> TagRec(37500, 7, <<0, Len(blob)>>,
                                 Put32(<<0, data + 6>>, order), order)

RECURSIVE FieldRecs(_, _, _, _, _)
FieldRecs(kinds, sub, data, blob, order) ==
    IF kinds = <<>> THEN <<>>
    ELSE FieldRec(Head(kinds), sub, data, blob, order)
         \o FieldRecs(Tail(kinds), sub, data, blob, order)

\* Where the value of the Canon note's tag is stored: inside the note, in
\* the "Canon\0" before it, in the container's header, with its second half
\* beyond the end of the note, and beyond every buffer.
CanonTargets == {"in", "before", "head", "tail", "far"}

\* A Canon maker note placed at the container offset at: a directory of one
\* LONG tag of two components, its 8 value bytes stored by offset, and 8
\* bytes after the directory.
CanonBlob(at, target, order) ==
    LET v == CASE target = "in" -> <<0, at + 18>>
               [] target = "before" -> <<0, at - 6>>
               [] target = "head" -> <<0, 0>>
               [] target = "tail" -> <<0, at + 22>>
               [] OTHER -> FarOffset
    IN  Put16(1, order) \o TagRec(1, 4, <<0, 2>>, Put32(v, order), order)
        \o Put32(<<0, 0>>, order) \o <<161, 162, 163, 164, 165, 166, 167, 168>>

\* A container: IFD0 at 8, the sub-directory (when it has tags), the values:
\* "Canon\0" and the maker note.
BuildFieldTiff(c, order) ==
    LET bo == IF order = "LE" THEN <<73, 73>> ELSE <<77, 77>>
        sub == 14 + 12 * Len(c.ifd0)
        data == IF c.sub = <<>> THEN sub ELSE sub + 6 + 12 * Len(c.sub)
        blob == IF c.canon = "none" THEN c.blob ELSE CanonBlob(data + 6, c.canon, order)
        dir(kinds) == Put16(Len(kinds), order)
                      \o FieldRecs(kinds, sub, data, blob, order)
                      \o Put32(<<0, 0>>, order)
    IN  bo \o Put16(42, order) \o Put32(<<0, 8>>, order) \o dir(c.ifd0)
        \o (IF c.sub = <<>> THEN <<>> ELSE dir(c.sub))
        \o CanonMake \o <<0>> \o blob

\* Containers with a pointer and a sub-directory.
PointerKinds == {"exifptr", "gpsptr", "iopptr", "farptr"}

PointerTiffs ==
    { [ifd0 |-> i, sub |-> sb, blob |-> <<>>, canon |-> "none"] :
        i \in {<<"expo">>, <<"expo", "unk">>}
              \cup {<<"expo", p>> : p \in PointerKinds}
              \cup {<<"unk", p>> : p \in PointerKinds},
        sb \in {<<"gpsref">>, <<"unk2">>, <<"gpsref", "unk2">>} }

\* Containers with a MakerNote in IFD0.
MakeKinds == {"make", "nimake", "nummake"}

NoteTiffs ==
    { [ifd0 |-> i, sub |-> <<>>, blob |-> <<>>, canon |-> "none"] :
        i \in {<<"note4">>, <<"unk", "note4">>}
              \cup {<<m, "note4">> : m \in MakeKinds}
              \cup {<<"unk", m, "note4">> : m \in MakeKinds} }
    \cup
    { [ifd0 |-> i, sub |-> <<>>, blob |-> b, canon |-> "none"] :
        i \in {<<"note">>, <<"unk", "note">>}
              \cup {<<m, "note">> : m \in MakeKinds}
              \cup {<<"unk", m, "note">> : m \in MakeKinds},
        b \in NoteBlobs }

\* Containers with a Canon maker note.
CanonTiffs ==
    { [ifd0 |-> i, sub |-> <<>>, blob |-> <<>>, canon |-> t] :
        i \in {<<"make", "note">>, <<"unk", "make", "note">>}, t \in CanonTargets }

\* The field names asked of Get.
AskedNames ==
    validField \cup addValidFields(interopFields)
    \cup {UnknownName(30583), UnknownName(1), <<"NoSuchField">>}

\* The orders a map iteration can yield the names of main in.
IterOrders(main) ==
    LET names == DOMAIN main
        n == Cardinality(names)
    IN  {o \in [1..n -> names] : \A i, j \in 1..n : i # j => o[i] # o[j]}

InitField ==
    /\ \E c \in PointerTiffs \cup NoteTiffs \cup CanonTiffs, order \in Orders, wrap \in {"jpeg", "cut"} :
         fd = FieldStart(BuildStream(BuildFieldTiff(c, order), wrap), {})
    /\ tg = Idle /\ tf = Idle /\ app = Idle /\ ex = Idle /\ ac = Idle
    /\ ns = Idle

\* Decode up to the call of loadMakerNotes.
FieldCoreStep ==
    /\ fd.pc = "input"
    /\ fd' = FieldCore(fd)
    /\ UNCHANGED <<tg, tf, app, ex, ac, ns>>

\* loadMakerNotes and the return.
FieldNotesStep ==
    /\ fd.pc = "notes"
    /\ fd' = FieldNotes(fd)
    /\ UNCHANGED <<tg, tf, app, ex, ac, ns>>

\* x.Get(name) on the document Decode returned.
FieldGetStep ==
    /\ fd.pc = "done" /\ ~fd.nil
    /\ \E name \in AskedNames :
         fd' = [fd EXCEPT !.pc = "got"] @@ [get |-> Get(fd.main, name)]
    /\ UNCHANGED <<tg, tf, app, ex, ac, ns>>

\* x.Walk(w) on the document Decode returned.
FieldWalkStep ==
    /\ fd.pc = "done" /\ ~fd.nil
    /\ \E order \in IterOrders(fd.main), failAt \in 0..Cardinality(DOMAIN fd.main) :
         fd' = [fd EXCEPT !.pc = "walked"]
               @@ [failAt |-> failAt, walk |-> Walk(fd.main, order, failAt)]
    /\ UNCHANGED <<tg, tf, app, ex, ac, ns>>

\* A parser of package mknote called on the document of standard fields.
FieldParseStep ==
    /\ fd.pc = "notes"
    /\ \E p \in Parsers :
         fd' = [fd EXCEPT !.pc = "parsed"]
               @@ [parser |-> p, parse |-> MakerParse(p, fd.main, fd.order)]
    /\ UNCHANGED <<tg, tf, app, ex, ac, ns>>

NextField ==
    FieldCoreStep \/ FieldNotesStep \/ FieldGetStep \/ FieldWalkStep \/ FieldParseStep

SpecField == InitField /\ [][NextField]_vars

-----------------------------------------------------------------------------
(* The field document scenario: properties *)

\* The names of the namespace tables: Exif, GPS, Interoperability and the
\* maker-note tables.
KnownNames ==
    addValidFields(exifFields) \cup addValidFields(gpsFields)
    \cup addValidFields(interopFields) \cup addValidFields(makerNoteCanonFields)
    \cup addValidFields(makerNoteNikon3Fields)

\* C11: Get answers a name with the tag when the document holds the field,
\* with the not-present error when the name is in a namespace table and the
\* document does not hold it, and with the invalid-name error only when the
\* name is in no namespace table.
C11_GetOutcomes ==
    fd.pc = "got" =>
        LET n == fd.get.name
        IN  /\ n \in DOMAIN fd.main => (fd.get.out = "ok" /\ fd.get.tag = fd.main[n])
            /\ (n \notin DOMAIN fd.main /\ n \in KnownNames) => fd.get.out = "absent"
            /\ fd.get.out = "invalid" => n \notin KnownNames

-----------------------------------------------------------------------------
(* Sub-directory pointers, partial documents, unknown ids, Walk: properties *)

\* exif.Decode reached the document: the container decoded with a first
\* directory.
CoreDecoded ==
    /\ ex.pc = "done" /\ ex.tif.pc = "done" /\ ~ex.tif.err /\ ~ex.err
    /\ Len(ex.tif.Dirs) >= 1

\* The offset written in the 4-byte value field of the decoded tag t, read as
\* t's type tells, unsigned.
SlotTarget(t) ==
    LET f == SubSeq(ex.er, t.pos - 3, t.pos)
    IN  CASE t.Type \in {1, 6} -> <<0, f[1]>>
          [] t.Type \in {3, 8} -> <<0, Uint16(SubSeq(f, 1, 2), ex.tif.order)>>
          [] OTHER -> Uint32(f, ex.tif.order)

\* The pointer tags of IFD0 that are of an integer type.
Ifd0Pointers ==
    { k \in 1..Len(ex.tif.Dirs[1].Tags) :
        /\ ex.tif.Dirs[1].Tags[k].Id \in PtrIds
        /\ ex.tif.Dirs[1].Tags[k].Type \in {1, 3, 4, 6, 8, 9} }

C13_NoPartialDocument ==
    (ex.pc = "done" /\ ex.res = "error") => (ex.nil /\ ex.main = <<>>)

\* The tags of IFD0 whose id the Exif field table does not list.
UnknownIfd0 == { k \in 1..Len(fd.ifd0) : fd.ifd0[k].Id \notin DOMAIN exifFields }

\* C14: every tag decoded from IFD0 whose id is absent from the field table is
\* kept in the document under the synthesized name (the unknown prefix and the
\* id in hex), and a Walk that runs to its end delivers it.
C14_UnknownTagsKept ==
    /\ fd.pc = "notes" =>
          \A k \in UnknownIfd0 :
              /\ UnknownName(fd.ifd0[k].Id) \in DOMAIN fd.core
              /\ fd.core[UnknownName(fd.ifd0[k].Id)] = fd.ifd0[k]
    /\ (fd.pc = "walked" /\ fd.walk.ret = "nil") =>
          \A k \in UnknownIfd0 :
              \E i \in 1..Len(fd.walk.calls) :
                  fd.walk.calls[i] = [name |-> UnknownName(fd.ifd0[k].Id),
                                      tag |-> fd.ifd0[k]]

-----------------------------------------------------------------------------
(* Maker notes: properties *)

\* C16: when the structural core decodes, maker-note loading, successful or
\* not, does not make Decode fail, and every field resolved before it is
\* still in the document under the same name with the same tag.
C16_MakerNotesBestEffort ==
    (fd.pc = "done" /\ fd.core # <<>>) =>
        /\ fd.res = "ok"
        /\ \A name \in DOMAIN fd.core :
              name \in DOMAIN fd.main /\ fd.main[name] = fd.core[name]

\* The document holds a MakerNote, its Make is not "Canon", and the note does
\* not start with a Nikon signature that a parser recognises.
UnrecognisedNote ==
    /\ MakerNote \in DOMAIN fd.core
    /\ ~(Make \in DOMAIN fd.core /\ fd.core[Make].Type = 2
         /\ fd.core[Make].strVal = CanonMake)
    /\ LET val == fd.core[MakerNote].Val
       IN  /\ ~(Len(val) >= 8 /\ SubSeq(val, 1, 8) = NikonV1Mark)
           /\ ~(Len(val) >= 14 /\ SubSeq(val, 1, 7) = NikonV3Mark
                /\ SubSeq(val, 11, 14) \in TiffMarks)

\* C17: on a document whose MakerNote is of no recognised vendor (Make not
\* "Canon", no recognised Nikon signature, short notes included) a maker-note
\* parser returns no error and hands no tag to the document.
C17_UnrecognisedNoteIgnored ==
    (fd.pc = "parsed" /\ UnrecognisedNote) =>
        (fd.parse.out = "nil" /\ ~fd.parse.called)

-----------------------------------------------------------------------------
(* package tiff: the typed accessors of a tag *)

\* Tag.TypeCategory
TypeCategory(typ) ==
    CASE typ \in {1, 3, 4, 6, 8, 9} -> "IntVal"
      [] typ \in {5, 10} -> "RatVal"
      [] typ \in {11, 12} -> "FloatVal"
      [] typ = 2 -> "StringVal"
      [] typ = 7 -> "UndefVal"
      [] OTHER -> "OtherVal"

\* What a call of an accessor comes to: out is "value" (the value val, with a
\* nil error in the form that has one), "typeErr" (a *BadTypecastErr),
\* "divErr" or "panic".
Returned(val) == [out |-> "value", val |-> val]
Failed(out) == [out |-> out, val |-> <<>>]

\* The accessors exist in two forms: "v1" returns the value alone and
\* panics on a tag of another category, "v2" returns the value and an error.
AccessorForms == {"v1", "v2"}

\* "if t.TypeCategory() != ... {": panic(...) in v1, return t.typeErr(...) in v2.
Mismatch(form) == IF form = "v1" THEN Failed("panic") ELSE Failed("typeErr")

\* The index expression vals[i] of a Go slice: a run-time panic when i is
\* not in 0 .. len(vals)-1.
Indexed(vals, i) ==
    IF i < 0 \/ i >= Len(vals) THEN Failed("panic") ELSE Returned(vals[i + 1])

\* Tag.Int(i)
TagInt(form, t, i) ==
    IF TypeCategory(t.Type) # "IntVal" THEN Mismatch(form) ELSE Indexed(t.intVals, i)

\* Tag.Float(i)
TagFloat(form, t, i) ==
    IF TypeCategory(t.Type) # "FloatVal" THEN Mismatch(form) ELSE Indexed(t.floatVals, i)

\* Tag.Rat2(i): the numerator-denominator pair as stored.
TagRat2(form, t, i) ==
    IF TypeCategory(t.Type) # "RatVal" THEN Mismatch(form) ELSE Indexed(t.ratVals, i)

\* The int64 of a limb pair (for the values that fit TLC's integers).
ToInt(u) == u[1] * 65536 + u[2]

Abs(n) == IF n < 0 THEN 0 - n ELSE n

RECURSIVE Gcd(_, _)
Gcd(a, b) == IF b = 0 THEN a ELSE Gcd(b, a % b)

\* big.NewRat(n, d): a panic when d is 0, else the fraction in lowest terms
\* with a positive denominator.
NewRat(n, d) ==
    IF d = <<0, 0>> THEN Failed("panic")
    ELSE LET a == ToInt(n)
             b == ToInt(d)
             g == Gcd(Abs(a), Abs(b))
             s == IF b < 0 THEN 0 - 1 ELSE 1
         IN  Returned(<<(s * a) \div g, (s * b) \div g>>)

\* Tag.Rat(i) after its call of Rat2, r the outcome.
RatOf(r) == IF r.out # "value" THEN r ELSE NewRat(r.val[1], r.val[2])

\* Tag.Rat(i)
TagRat(form, t, i) == RatOf(TagRat2(form, t, i))

\* Tag.StringVal()
TagStringVal(form, t) ==
    IF TypeCategory(t.Type) # "StringVal" THEN Mismatch(form) ELSE Returned(t.strVal)

Accessors == {"Int", "Float", "Rat", "Rat2", "StringVal"}

\* The category an accessor is for.
CategoryOf(acc) ==
    CASE acc = "Int" -> "IntVal"
      [] acc = "Float" -> "FloatVal"
      [] acc \in {"Rat", "Rat2"} -> "RatVal"
      [] OTHER -> "StringVal"

\* The call of accessor acc of form form on the tag t with index i.
Accessor(form, acc, t, i) ==
    CASE acc = "Int" -> TagInt(form, t, i)
      [] acc = "Float" -> TagFloat(form, t, i)
      [] acc = "Rat" -> TagRat(form, t, i)
      [] acc = "Rat2" -> TagRat2(form, t, i)
      [] OTHER -> TagStringVal(form, t)

-----------------------------------------------------------------------------
(* Lazy decoding: the structure of a tag up front, its value on first use *)

\* DecodeTag in the lazy mode: the 12-byte record is read as DecodeTag reads
\* it and the place of the value is recorded (the offset field, or the
\* record's own last field when the value is at most 4 bytes); no value
\* byte is fetched or converted.  loaded tells whether the value has been
\* materialized, loadErr whether the last LoadVal failed.
LazyDecodeTag(buf, pos, order) ==
    LET rId == ReadFull(buf, pos, 2)
        rTy == ReadFull(buf, rId.pos, 2)
        rCn == ReadFull(buf, rTy.pos, 4)
        rOf == ReadFull(buf, rCn.pos, 4)
        Type == Uint16(rTy.bytes, order)
        Count == Uint32(rCn.bytes, order)
        t0 == [err |-> TRUE, nil |-> TRUE, Id |-> 0, Type |-> 0, Count |-> <<0, 0>>,
               Val |-> <<>>, ValOffset |-> <<0, 0>>, intVals |-> <<>>, ratVals |-> <<>>,
               floatVals |-> <<>>, strVal |-> <<>>, pos |-> pos,
               loaded |-> FALSE, loadErr |-> FALSE]
        t == [t0 EXCEPT !.nil = FALSE, !.Id = Uint16(rId.bytes, order),
                        !.Type = Type, !.Count = Count, !.pos = rOf.pos]
    IN  IF ~rId.ok THEN [t0 EXCEPT !.pos = rId.pos]
        ELSE IF ~rTy.ok THEN [t0 EXCEPT !.pos = rTy.pos]
        ELSE IF ~rCn.ok THEN [t0 EXCEPT !.pos = rCn.pos]
        ELSE IF Gt4(MulU32(typeSize(Type), Count))
             THEN \* the offset field, 0 when it could not be read
                  [t EXCEPT !.err = FALSE,
                            !.ValOffset = IF rOf.ok THEN Uint32(rOf.bytes, order)
                                          ELSE <<0, 0>>]
        ELSE IF ~rOf.ok THEN t
        ELSE [t EXCEPT !.err = FALSE, !.ValOffset = <<0, rCn.pos>>]

\* The lazy tag with its value bytes kept and their conversion left out.
LoadedUnconverted(t, bytes, cv) ==
    [t EXCEPT !.Val = bytes, !.err = FALSE, !.loadErr = FALSE, !.loaded = TRUE]

\* The lazy tag t with its value bytes and the outcome cv of their conversion.
LoadedWith(t, bytes, cv) ==
    [WithVals([t EXCEPT !.Val = bytes], cv)
        EXCEPT !.err = FALSE, !.loadErr = cv.err, !.loaded = ~cv.err]

\* LoadVal after the read of the value bytes, at the outcome of ReadAt: an
\* error on a short read, else the bytes and their conversion, kept.
LoadedFrom(t, at, order) ==
    IF ~at.full THEN [t EXCEPT !.loadErr = TRUE]
    ELSE LoadedWith(t, at.bytes, convertVals(t.Type, t.Count, at.bytes, order))

\* Tag.LoadVal(): nothing to do when the value is loaded already, else
\* fetch the value bytes from where the record said and convert them.
LoadVal(t, buf, order) ==
    IF t.loaded THEN t
    ELSE LoadedFrom(t, ReadAt(buf, t.ValOffset, MulU32(typeSize(t.Type), t.Count)), order)

\* What the lazy tag t, after its LoadVal, answers to the call acc(i):
\* LoadVal's error, the raw value, or the accessor's answer.
LazyAnswer(t, acc, i) ==
    IF t.loadErr THEN Failed("loadErr")
    ELSE IF acc = "LoadVal" THEN Returned(t.Val)
    ELSE Accessor("v2", acc, t, i)

\* The calls made on a lazy tag.
LazyCalls == Accessors \cup {"LoadVal"}

\* What the eagerly decoded tag t answers to the same call: its Val field
\* for the raw value.
EagerAnswer(t, acc, i) ==
    IF acc = "LoadVal" THEN Returned(t.Val) ELSE Accessor("v2", acc, t, i)

-----------------------------------------------------------------------------
(* The accessor scenario: a tag decoded in both modes, and calls on it *)

\* The well-formed tags of one or two components, every data type.
AccessTags ==
    UNION { { [Id |-> 1, Type |-> typ, comps |-> cs, off |-> 12] :
                cs \in [1..1 -> CompVals(typ)] \cup [1..2 -> CompVals(typ)] }
            : typ \in 1..12 }

\* Raw records: no component, a type code without a category, values
\* inside and beyond the buffer, and a record cut after its count.
AccessRawTags ==
    { [Id |-> 1, Type |-> typ, Count |-> c, off |-> o, rest |-> r, cut |-> k] :
        typ \in {0, 1, 2, 4, 7, 11, 13}, c \in {<<0, 0>>, <<0, 1>>, <<0, 2>>, <<0, 5>>},
        o \in {<<0, 12>>, <<0, 20>>}, r \in {8, 16}, k \in {12, 8} }

\* The indexes asked for.
Indexes == {0 - 1, 0, 1, 2}

InitAccess ==
    /\ \/ \E in \in AccessTags, order \in Orders :
            ac = [pc |-> "input", order |-> order, buf |-> BuildInput(in, order)]
       \/ \E in \in AccessRawTags, order \in Orders :
            ac = [pc |-> "input", order |-> order, buf |-> BuildRaw(in, order)]
    /\ tg = Idle /\ tf = Idle /\ app = Idle /\ ex = Idle /\ fd = Idle
    /\ ns = Idle

\* The tag decoded eagerly (tag) and lazily (lazy).
AccessDecodeStep ==
    /\ ac.pc = "input"
    /\ ac' = [ac EXCEPT !.pc = "decoded"]
             @@ [tag |-> DecodeTag(ac.buf, 0, ac.order),
                 lazy |-> LazyDecodeTag(ac.buf, 0, ac.order)]
    /\ UNCHANGED <<tg, tf, app, ex, fd, ns>>

\* One accessor call, of either form, on the eagerly decoded tag.
AccessCallStep ==
    /\ ac.pc = "decoded" /\ ~ac.tag.err
    /\ \E form \in AccessorForms, acc \in Accessors, i \in Indexes :
         ac' = [ac EXCEPT !.pc = "called"]
               @@ [form |-> form, acc |-> acc, i |-> i,
                   ret |-> Accessor(form, acc, ac.tag, i)]
    /\ UNCHANGED <<tg, tf, app, ex, fd, ns>>

\* The lazy tag after the LoadVal of a call, and the call's answer.
LazyCalled(st, t, acc, i) ==
    [pc |-> IF st.pc = "decoded" THEN "lazy1" ELSE "lazy2",
     order |-> st.order, buf |-> st.buf, tag |-> st.tag, lazy |-> t,
     acc |-> acc, i |-> i, ret |-> LazyAnswer(t, acc, i)]

\* A first or a second call on the lazily decoded tag.
LazyCallStep ==
    /\ ac.pc \in {"decoded", "lazy1"} /\ ~ac.lazy.err
    /\ \E acc \in LazyCalls, i \in Indexes :
         ac' = LazyCalled(ac, LoadVal(ac.lazy, ac.buf, ac.order), acc, i)
    /\ UNCHANGED <<tg, tf, app, ex, fd, ns>>

NextAccess == AccessDecodeStep \/ AccessCallStep \/ LazyCallStep

SpecAccess == InitAccess /\ [][NextAccess]_vars

-----------------------------------------------------------------------------
(* The accessor scenario: properties *)

C19_TypeMismatchIsError ==
    (ac.pc = "called" /\ TypeCategory(ac.tag.Type) # CategoryOf(ac.acc)) =>
        ac.ret.out = "typeErr"

\* C20: Int, Float, Rat or Rat2 called on a tag of the accessor's category
\* with an index below 0 or not below the count returns an
\* index-out-of-range error; it does not panic.
C20_IndexOutOfRangeIsError ==
    (/\ ac.pc = "called" /\ ac.acc \in {"Int", "Float", "Rat", "Rat2"}
     /\ TypeCategory(ac.tag.Type) = CategoryOf(ac.acc)
     /\ (ac.i < 0 \/ ac.tag.Count[1] > 0 \/ ac.i >= ac.tag.Count[2])) =>
        ac.ret.out = "indexErr"

ZeroDenTags ==
    UNION { { [Id |-> 1, Type |-> typ, comps |-> cs, off |-> 12] :
                cs \in { c \in [1..1 -> CompVals(typ)] \cup [1..2 -> CompVals(typ)] :
                            \E k \in DOMAIN c : c[k][2] = <<0, 0>> } }
            : typ \in {5, 10} }

\* The tag has an i-th pair and its denominator is 0.
ZeroDenAt(t, i) ==
    /\ TypeCategory(t.Type) = "RatVal"
    /\ i >= 0 /\ i < Len(t.ratVals)
    /\ t.ratVals[i + 1][2] = <<0, 0>>

\* C21: a rational tag with a pair of denominator 0 decodes, with the pairs
\* as stored; Rat2(i) on such a pair returns the stored numerator and
\* denominator, unreduced; Rat(i) on it returns a division error and does
\* not panic.
C21_ZeroDenominator ==
    /\ ac.pc # "input" =>
          \A in \in ZeroDenTags :
              ac.buf = BuildInput(in, ac.order) =>
                  (~ac.tag.err /\ ac.tag.ratVals = in.comps)
    /\ (ac.pc = "called" /\ ZeroDenAt(ac.tag, ac.i)) =>
          /\ ac.acc = "Rat2" => ac.ret = Returned(ac.tag.ratVals[ac.i + 1])
          /\ ac.acc = "Rat" => ac.ret.out = "divErr"
-----------------------------------------------------------------------------
(* The newAppSec scenario: the segment data and the outcomes *)

\* The bytes the stream holds after the length field of the segment
\* newAppSec settled on, as many as the length field declares.
DeclaredData(a) == SubSeq(a.stream, a.markAt + 4, a.markAt + 1 + a.lenField)

\* C22: on a successful return of newAppSec the segment data is exactly the
\* length - 2 bytes that follow the length field in the stream, in order and
\* with nothing added, for every segment length and every split of the
\* stream into reads.
C22_SegmentDataExact ==
    (app.pc = "done" /\ app.res = "ok") =>
        /\ Len(app.data) = app.lenField - 2
        /\ app.data = DeclaredData(app)
-----------------------------------------------------------------------------
(* The accessor scenario: the string of an ASCII tag *)

RECURSIVE TrimNuls(_)
\* The bytes s without the NUL bytes at their end.
TrimNuls(s) ==
    IF s = <<>> THEN <<>>
    ELSE IF s[Len(s)] # 0 THEN s
    ELSE TrimNuls(SubSeq(s, 1, Len(s) - 1))

\* C23: StringVal of an ASCII tag returns the value bytes without the NUL
\* bytes at their end, all of them when there are several; the empty string
\* for an empty value; and a last byte that is not NUL stays in the string.
C23_StringDropsTrailingNuls ==
    (ac.pc = "called" /\ ac.acc = "StringVal" /\ ac.tag.Type = 2) =>
        ac.ret = Returned(TrimNuls(ac.tag.Val))
-----------------------------------------------------------------------------
(* package exif with three tag maps: Decode, loadSubDir, the tables, Get *)

\* loadStdFields: the tables from field name to tag id of the three maps
\* (the entries the scenario uses).
loadStdFields ==
    [fields |-> ("Make" :> 271) @@ ("ExposureTime" :> 33434) @@ ("MakerNote" :> 37500)
                @@ ("ExifIFDPointer" :> exifPointer) @@ ("GPSInfoIFDPointer" :> gpsPointer)
                @@ ("InteroperabilityIFDPointer" :> interopPointer),
     gpsFields |-> ("GPSVersionID" :> 0) @@ ("GPSLatitudeRef" :> 1),
     interOpFields |-> ("InteroperabilityIndex" :> 1)]

\* The Exif structure at its construction: three empty tag maps.
NewExif == [main |-> <<>>, gps |-> <<>>, interOp |-> <<>>]

\* loadSubDir after "subDir, _, err := tiff.DecodeDir(r, x.tif.Order)": the
\* tags of the sub-directory go into the map named space.
NsSubDirLoaded(x, sub, space) ==
    IF sub.err THEN [out |-> "error", x |-> x]
    ELSE [out |-> "ok", x |-> [x EXCEPT ![space] = LoadTags(x[space], sub.Tags)]]

\* x.loadSubDir(r, tagId, tags), tags the map named space: the pointer is
\* looked up in x.main; out is "ok", "error", or "panic" for the panics of
\* tag.Int(0).
nsLoadSubDir(x, er, order, tagId, space) ==
    LET tag == x.main[tagId]
        offset == tag.intVals[1]
    IN  IF tagId \notin DOMAIN x.main THEN [out |-> "ok", x |-> x]
        ELSE IF tag.Type \notin {1, 3, 4, 6, 8, 9} \/ Len(tag.intVals) = 0
             THEN [out |-> "panic", x |-> x]
        ELSE IF offset[1] # 0 THEN [out |-> "error", x |-> x]
        ELSE NsSubDirLoaded(x, DecodeDir(er, offset[2], order), space)

RECURSIVE NsLoadSubDirs(_, _, _, _)
\* Decode after one loadSubDir, s its outcome.
NsAfterSubDir(s, er, order, calls) ==
    IF s.out # "ok" THEN s ELSE NsLoadSubDirs(s.x, er, order, calls)

\* The calls of loadSubDir, each <<pointer id, map>>, in order.
NsLoadSubDirs(x, er, order, calls) ==
    IF calls = <<>> THEN [out |-> "ok", x |-> x]
    ELSE NsAfterSubDir(nsLoadSubDir(x, er, order, Head(calls)[1], Head(calls)[2]),
                       er, order, Tail(calls))

\* Decode leaving: res is "error", "ok", "panic" or "spin"; nil tells
\* whether the *Exif returned is nil.
NsEnd(res, nil, x) == [res |-> res, nil |-> nil, x |-> x]

\* Decode's return after the loadSubDir calls, s their outcome.
NsDoc(s) ==
    IF s.out = "panic" THEN NsEnd("panic", TRUE, NewExif) ELSE NsEnd(s.out, FALSE, s.x)

\* Decode from "build an exif structure from the tiff" on.
NsBuild(er, tif) ==
    IF tif.pc = "spin" THEN NsEnd("spin", TRUE, NewExif)
    ELSE IF tif.err THEN NsEnd("error", TRUE, NewExif)
    ELSE IF Len(tif.Dirs) = 0 THEN NsEnd("panic", TRUE, NewExif)
    ELSE NsDoc(NsLoadSubDirs([NewExif EXCEPT !.main = LoadTags(<<>>, tif.Dirs[1].Tags)],
                             er, tif.order,
                             << <<exifPointer, "main">>, <<gpsPointer, "gps">>,
                                <<interopPointer, "interOp">> >>))

\* Decode after "er, err := sec.exifReader()".
NsAfterReader(rd) ==
    IF rd.err THEN NsEnd("error", TRUE, NewExif)
    ELSE NsBuild(rd.bytes, TiffDecode(rd.bytes))

\* Decode after "sec, err := newAppSec(0xE1, r)".
NsAfterSec(sec) ==
    IF sec.res # "ok" THEN NsEnd(sec.res, TRUE, NewExif)
    ELSE NsAfterReader(exifReader(sec.data))

\* exif.Decode(r) with the three maps, r delivering stream in one read.
nsDecode(stream) == NsAfterSec(newAppSec("peek", jpeg_APP1, stream, {}))

\* A map's answer to x.m[x.t[name]]: the tag id of a name ...  is the zero
\* value 0 when the table does not list the name.
NsIdOf(table, name) == IF name \in DOMAIN table THEN table[name] ELSE 0

\* Get(name): the tag of the first of main, gps and interOp that holds the
\* id its table gives for name, or nil.
nsGet(x, name) ==
    LET T == loadStdFields
        a == NsIdOf(T.fields, name)
        b == NsIdOf(T.gpsFields, name)
        c == NsIdOf(T.interOpFields, name)
    IN  IF a \in DOMAIN x.main THEN [nil |-> FALSE, tag |-> x.main[a]]
        ELSE IF b \in DOMAIN x.gps THEN [nil |-> FALSE, tag |-> x.gps[b]]
        ELSE IF c \in DOMAIN x.interOp THEN [nil |-> FALSE, tag |-> x.interOp[c]]
        ELSE [nil |-> TRUE, tag |-> <<>>]

-----------------------------------------------------------------------------
(* The namespace scenario: a JPEG stream decoded, and one Get *)

\* The ids of the one tag of the sub-directory.
NsSubIds == {0, 1, 271, 33434}

\* Containers with IFD0 = {Make} or {Make, a pointer}, and a sub-directory.
NsTiffs ==
    { BuildExifTiff([mark |-> FALSE, ptr |-> FALSE, id |-> exifPointer, typ |-> 4,
                     cnt |-> 1, target |-> "sub", subId |-> 271], order) :
        order \in Orders }
    \cup
    { BuildExifTiff([mark |-> FALSE, ptr |-> TRUE, id |-> id, typ |-> 4, cnt |-> 1,
                     target |-> tgt, subId |-> sid], order) :
        id \in PtrIds, tgt \in {"sub", "far"}, sid \in NsSubIds, order \in Orders }

\* The names asked for.
NsNames ==
    {"Make", "ExposureTime", "GPSVersionID", "GPSLatitudeRef",
     "InteroperabilityIndex", "GPSInfoIFDPointer", "NoSuchField"}

InitNs ==
    /\ \E T \in NsTiffs : ns = [pc |-> "input", stream |-> BuildStream(T, "jpeg")]
    /\ tg = Idle /\ tf = Idle /\ app = Idle /\ ex = Idle /\ fd = Idle /\ ac = Idle

\* exif.Decode
NsDecodeStep ==
    /\ ns.pc = "input"
    /\ ns' = [ns EXCEPT !.pc = "decoded"] @@ [doc |-> nsDecode(ns.stream)]
    /\ UNCHANGED <<tg, tf, app, ex, fd, ac>>

\* x.Get(name) on the document Decode returned.
NsGetStep ==
    /\ ns.pc = "decoded" /\ ~ns.doc.nil
    /\ \E name \in NsNames :
         ns' = [ns EXCEPT !.pc = "got"] @@ [name |-> name, ret |-> nsGet(ns.doc.x, name)]
    /\ UNCHANGED <<tg, tf, app, ex, fd, ac>>

NextNs == NsDecodeStep \/ NsGetStep

SpecNs == InitNs /\ [][NextNs]_vars

-----------------------------------------------------------------------------
(* The namespace scenario: properties *)

\* The maps and their tables.
NsSpaces == {<<"main", "fields">>, <<"gps", "gpsFields">>, <<"interOp", "interOpFields">>}

\* The map and table of sp hold the field name in the document x.
NsHolds(x, sp, name) ==
    /\ name \in DOMAIN loadStdFields[sp[2]]
    /\ loadStdFields[sp[2]][name] \in DOMAIN x[sp[1]]

\* C24: Get(name) returns a tag only when a table lists name and the tags
\* decoded for that table's namespace hold the id the table gives, and the
\* tag returned has that id; for a name of no table and for a listed name
\* whose field the document does not hold Get returns nil, whatever other
\* tags the document holds.
C24_GetOnlyListedFields ==
    ns.pc = "got" =>
        /\ ~ns.ret.nil =>
              \E sp \in NsSpaces :
                  /\ NsHolds(ns.doc.x, sp, ns.name)
                  /\ ns.ret.tag = ns.doc.x[sp[1]][loadStdFields[sp[2]][ns.name]]
                  /\ ns.ret.tag.Id = loadStdFields[sp[2]][ns.name]
        /\ (\A sp \in NsSpaces : ~NsHolds(ns.doc.x, sp, ns.name)) => ns.ret.nil
-----------------------------------------------------------------------------
(* The field document scenario: the Canon maker note *)

\* The document holds a MakerNote and the Make "Canon", and a Canon parser
\* of package mknote has run on it.
CanonParsed ==
    /\ fd.pc = "parsed" /\ fd.parser \in {"canon", "Decode"}
    /\ MakerNote \in DOMAIN fd.main /\ Make \in DOMAIN fd.main
    /\ fd.main[Make].Type = 2 /\ fd.main[Make].strVal = CanonMake

\* The tag t holds the bytes of the container er at its value offset.
ValueFromContainer(t, er) ==
    LET off == t.ValOffset[2]
    IN  /\ t.ValOffset[1] = 0
        /\ off + Len(t.Val) <= Len(er)
        /\ t.Val = SubSeq(er, off + 1, off + Len(t.Val))

\* C25: a Canon maker note is decoded as a directory that starts at the
\* value offset of the MakerNote tag, and the value of each of its tags that
\* is stored by offset holds the bytes of the overall container at that
\* offset, unless the parse fails.
C25_CanonOffsetsAreContainerRelative ==
    (CanonParsed /\ fd.parse.out # "error") =>
        /\ fd.parse.out = "nil" /\ fd.parse.called
        /\ \A k \in 1..Len(fd.parse.tags) :
              LET t == fd.parse.tags[k]
              IN  /\ t.pos = fd.main[MakerNote].ValOffset[2] + 2 + 12 * k
                  /\ Gt4(MulU32(typeSize(t.Type), t.Count)) =>
                        ValueFromContainer(t, fd.er)
-----------------------------------------------------------------------------
(* The DecodeTag scenario: the record and the cursor *)

\* C26: DecodeTag succeeds only when the 12 bytes of the record were all
\* there for the sequential reader, and after a successful DecodeTag the
\* cursor is 12 bytes past the start of the record, for an inline value and
\* for a value read by offset alike.
C26_RecordReadWhole ==
    (tg.pc = "decoded" /\ ~tg.res.err) =>
        /\ Len(tg.buf) >= 12
        /\ tg.res.pos = 12
-----------------------------------------------------------------------------
(* The newAppSec scenario: the ways newAppSec ends *)

\* C27: newAppSec ends by returning a segment or an error and never by a
\* panic, also on a stream without a marker pair whose last byte is 0xFF;
\* and on a length field of 0 or 1 it does not set out to read a segment of
\* 65534 or 65535 bytes.
C27_ReturnsWithoutPanic ==
    /\ app.pc = "done" => app.res \in {"ok", "error"}
    /\ (app.found /\ app.lenField < 2) => app.dataLen < 65534
-----------------------------------------------------------------------------
(* The exif.Decode scenario: the ways Decode ends *)

\* The container has the 8 bytes of a header with a byte-order marker and
\* the 0x002A marker.
ValidHeader(T) == Len(T) >= 8 /\ ~BadHeader(T)

\* C28: on an input whose TIFF header is valid exif.Decode returns a
\* document or an error and does not panic, also when the first-directory
\* offset is 0 and when a pointer tag is not of an integer type or has no
\* component.
C28_DecodeReturnsWithoutPanic ==
    (ex.pc = "done" /\ ValidHeader(ex.T)) => ex.res \in {"ok", "error"}
-----------------------------------------------------------------------------
(* The field document scenario: Walk against Get *)

\* C29: Walk and Get agree: for every name and tag that Walk hands to the
\* visitor, Get of that name succeeds and returns that tag, fields of the
\* Interoperability directory and fields under a synthesized name included.
C29_WalkAndGetAgree ==
    fd.pc = "walked" =>
        \A i \in 1..Len(fd.walk.calls) :
            LET c == fd.walk.calls[i]
                g == Get(fd.main, c.name)
            IN  g.out = "ok" /\ g.tag = c.tag
-----------------------------------------------------------------------------
(* The exif.Decode scenario: the directories in the document *)

\* The document main holds the tag t.
Reachable(main, t) == \E id \in DOMAIN main : main[id] = t

\* The tags of the directory that the pointer tag p of IFD0 leads to.
FollowedTags(p) == DecodeDir(ex.er, p.intVals[1][2], ex.tif.order).Tags

\* C30: after exif.Decode every tag of IFD0 and of each sub-directory
\* followed from a pointer tag of IFD0 is in the document: loading a later
\* directory replaces no tag loaded before, also when two directories hold
\* tags with the same id.
C30_SubDirsKeepEarlierFields ==
    (ex.pc = "done" /\ ex.res = "ok") =>
        LET ifd0 == ex.tif.Dirs[1].Tags
        IN  /\ \A k \in 1..Len(ifd0) : Reachable(ex.main, ifd0[k])
            /\ \A k \in 1..Len(ifd0) :
                  ifd0[k].Id \in PtrIds =>
                      \A j \in 1..Len(FollowedTags(ifd0[k])) :
                          Reachable(ex.main, FollowedTags(ifd0[k])[j])

====
